---- MODULE Spec2Model ----
(***************************************************************************)
(* The budget editor of BudgetCAT (src/my-budget-app/src/renderer/src/     *)
(* App.tsx, EditorScreen): the flat list of budget lines, the hierarchy    *)
(* recalculation, the operations that edit the list, the filter, the       *)
(* section caps and what is handed to save, snapshots and the export.      *)
(*                                                                         *)
(* Ids are strings in the source; here they are the naturals 1, 2, ...     *)
(* and NoId (0) stands for an undefined / empty parentId (every falsy      *)
(* value of `l.parentId`).  generateId() draws nine random base-36 digits; *)
(* it is modelled as a counter that never repeats an id (README: "Genera-  *)
(* ción de IDs Únicos").  A stored numeric field is a JavaScript value: a  *)
(* finite number, NaN, an infinity, a string or undefined; finite numbers  *)
(* are exact fractions, so floating-point rounding is not modelled.  A     *)
(* text is the sequence of its characters.                                 *)
(***************************************************************************)
EXTENDS Integers, Sequences, FiniteSets, TLC

VARIABLES
    lines,          \* useState(initialData.lines): the stored flat list
    computedLines,  \* useMemo(() => recalcHierarchy(lines), [lines])
    sections,       \* useState(initialData.sections)
    activeRowId,    \* useState<string | null>: NoId is null
    draggedLineId,  \* useState<string | null>: NoId is null
    suggestions,    \* the query whose results are shown; <<>> is no results
    pending,        \* searchCost calls in flight, in the order issued
    nextId,         \* the next id generateId() returns
    filterText,     \* useState(''): the text of the "Filtrar..." box
    saved,          \* what was last handed to save, a snapshot or the export
    steps,          \* how many operations have run
    prev,           \* history: the stored list before the last operation
    last            \* history: the last operation and its arguments

vars == <<lines, computedLines, sections, activeRowId, draggedLineId, suggestions, pending,
          nextId, filterText, saved, steps, prev, last>>

(***************************************************************************)
(* Bounds of the model.                                                    *)
(***************************************************************************)
MaxLen == 3        \* longest input list of the recalculation specification
MaxSteps == 2      \* operations per run of the editor specification

NoId == 0
Dangling == NoId - 1     \* a parentId that names no Line of any list

(***************************************************************************)
(* Numbers.  A finite number is the fraction n / d in lowest terms with    *)
(* d > 0, so that decimal input (1.5, 10%) and division are exact.         *)
(***************************************************************************)
Abs(x) == IF x < 0 THEN 0 - x ELSE x

RECURSIVE GCD(_, _)
GCD(a, b) == IF b = 0 THEN a ELSE GCD(b, a % b)

\* The finite number n / d, for d # 0.
Frac(n, d) ==
    LET g == GCD(Abs(n), Abs(d))
        sgn == IF d < 0 THEN 0 - 1 ELSE 1
    IN  [k |-> "num", n |-> sgn * (n \div g), d |-> Abs(d) \div g]

Num(n) == [k |-> "num", n |-> n, d |-> 1]

NumTimes(a, b) == Frac(a.n * b.n, a.d * b.d)
NumPlus(a, b) == Frac(a.n * b.d + b.n * a.d, a.d * b.d)
NumMinus(a, b) == Frac(a.n * b.d - b.n * a.d, a.d * b.d)
NumLess(a, b) == a.n * b.d < b.n * a.d
IsZero(a) == a.k = "num" /\ a.n = 0

(***************************************************************************)
(* JavaScript values of the numeric fields.                                *)
(***************************************************************************)
NaNV == [k |-> "nan", n |-> 0, d |-> 1]       \* NaN
InfV == [k |-> "inf", n |-> 1, d |-> 1]       \* Infinity; n is its sign
NegInfV == [k |-> "inf", n |-> 0 - 1, d |-> 1]
Str(n) == [k |-> "str", n |-> n, d |-> 1]     \* a string that parseFloat reads as n
BadStr == [k |-> "bad", n |-> 0, d |-> 1]     \* a non-empty string that is no number
Undef == [k |-> "undef", n |-> 0, d |-> 1]    \* undefined, null or ""

\* safeVal (App.tsx 61-68): a finite number; everything malformed is 0.
safeVal(val) ==
    CASE val.k = "num" -> val
      [] val.k \in {"nan", "inf"} -> Num(0)
      [] val.k = "undef" -> Num(0)
      [] val.k = "str" -> [val EXCEPT !.k = "num"]
      [] OTHER -> Num(0)

\* The arithmetic of JavaScript numbers (finite, NaN, +-Infinity); the sign
\* of a zero is not kept.
Sign(a) == IF a.n < 0 THEN 0 - 1 ELSE 1
InfOf(sgn) == IF sgn < 0 THEN NegInfV ELSE InfV

JsNeg(a) == IF a.k = "nan" THEN NaNV ELSE [a EXCEPT !.n = 0 - a.n]

JsTimes(a, b) ==
    IF a.k = "nan" \/ b.k = "nan" THEN NaNV
    ELSE IF a.k = "inf" \/ b.k = "inf"
         THEN (IF IsZero(a) \/ IsZero(b) THEN NaNV ELSE InfOf(Sign(a) * Sign(b)))
         ELSE NumTimes(a, b)

JsPlus(a, b) ==
    IF a.k = "nan" \/ b.k = "nan" THEN NaNV
    ELSE IF a.k = "inf" /\ b.k = "inf" THEN (IF a.n = b.n THEN a ELSE NaNV)
    ELSE IF a.k = "inf" THEN a
    ELSE IF b.k = "inf" THEN b
    ELSE NumPlus(a, b)

JsMinus(a, b) == JsPlus(a, JsNeg(b))

JsDiv(a, b) ==
    IF a.k = "nan" \/ b.k = "nan" THEN NaNV
    ELSE IF a.k = "inf" THEN (IF b.k = "inf" THEN NaNV ELSE InfOf(Sign(a) * Sign(b)))
    ELSE IF b.k = "inf" THEN Num(0)
    ELSE IF IsZero(b) THEN (IF IsZero(a) THEN NaNV ELSE InfOf(Sign(a)))
    ELSE Frac(a.n * b.d, a.d * b.n)

\* ToNumber of a stored value, as the operator * applies it.
JsToNumber(val) ==
    CASE val.k \in {"num", "nan", "inf"} -> val
      [] val.k = "str" -> [val EXCEPT !.k = "num"]
      [] val.k = "undef" -> NaNV
      [] OTHER -> NaNV

\* (x || 0): 0 for the falsy values 0, NaN, undefined and "".
JsOrZero(val) ==
    IF val.k \in {"nan", "undef"} \/ IsZero(val) THEN Num(0) ELSE val

(***************************************************************************)
(* Sequences.                                                              *)
(***************************************************************************)
\* The sum of a list of finite numbers.
RECURSIVE SumSeq(_)
SumSeq(s) == IF s = <<>> THEN Num(0) ELSE NumPlus(Head(s), SumSeq(Tail(s)))

IdsOf(allLines) == {allLines[i].id : i \in DOMAIN allLines}

\* prev.findIndex(p => p.id === id): the first index, 0 when there is none.
findIndex(allLines, id) ==
    IF \E i \in DOMAIN allLines : allLines[i].id = id
    THEN CHOOSE i \in DOMAIN allLines :
             /\ allLines[i].id = id
             /\ \A j \in DOMAIN allLines : allLines[j].id = id => i <= j
    ELSE 0

\* prev.find(l => l.id === id), for an id of the list.
find(allLines, id) == allLines[findIndex(allLines, id)]

\* allLines.filter(l => l.parentId === id), as the list of their ids.
RECURSIVE childIds(_, _)
childIds(allLines, id) ==
    IF allLines = <<>> THEN <<>>
    ELSE (IF Head(allLines).parentId = id THEN <<Head(allLines).id>> ELSE <<>>)
         \o childIds(Tail(allLines), id)

(***************************************************************************)
(* Texts are sequences of characters.  parseNumericInput (App.tsx 70-192). *)
(***************************************************************************)
Digits == {"0", "1", "2", "3", "4", "5", "6", "7", "8", "9"}

DigitVal(c) ==
    CASE c = "0" -> 0 [] c = "1" -> 1 [] c = "2" -> 2 [] c = "3" -> 3 [] c = "4" -> 4
      [] c = "5" -> 5 [] c = "6" -> 6 [] c = "7" -> 7 [] c = "8" -> 8 [] OTHER -> 9

DigitChar(n) ==
    CASE n = 0 -> "0" [] n = 1 -> "1" [] n = 2 -> "2" [] n = 3 -> "3" [] n = 4 -> "4"
      [] n = 5 -> "5" [] n = 6 -> "6" [] n = 7 -> "7" [] n = 8 -> "8" [] OTHER -> "9"

RECURSIVE Pow10(_)
Pow10(k) == IF k = 0 THEN 1 ELSE 10 * Pow10(k - 1)

\* expr[i], and "" past the end.
At(t, i) == IF i \in DOMAIN t THEN t[i] ELSE ""

Has(t, c) == \E i \in DOMAIN t : t[i] = c
lastIndexOf(t, c) == CHOOSE i \in DOMAIN t : t[i] = c /\ \A j \in DOMAIN t : t[j] = c => j <= i

RECURSIVE removeAll(_, _)
removeAll(t, c) ==
    IF t = <<>> THEN <<>>
    ELSE (IF Head(t) = c THEN <<>> ELSE <<Head(t)>>) \o removeAll(Tail(t), c)

replaceAll(t, c, by) == [i \in DOMAIN t |-> IF t[i] = c THEN by ELSE t[i]]

\* t.replace(c, by) with a string pattern: the first occurrence only.
replaceFirst(t, c, by) ==
    [i \in DOMAIN t |->
        IF t[i] = c /\ (\A j \in 1 .. i - 1 : t[j] # c) THEN by ELSE t[i]]

\* normalizeNumberToken (App.tsx 70-80).
normalizeNumberToken(token) ==
    IF Has(token, ",") /\ Has(token, ".")
    THEN (IF lastIndexOf(token, ",") > lastIndexOf(token, ".")
          THEN replaceFirst(removeAll(token, "."), ",", ".")
          ELSE removeAll(token, ","))
    ELSE IF Has(token, ",") THEN replaceAll(token, ",", ".")
    ELSE token

\* The end of the run of digits that starts at i.
RECURSIVE digitsEnd(_, _)
digitsEnd(t, i) == IF At(t, i) \in Digits THEN digitsEnd(t, i + 1) ELSE i

RECURSIVE digitsValue(_)
digitsValue(t) ==
    IF t = <<>> THEN 0 ELSE 10 * digitsValue(SubSeq(t, 1, Len(t) - 1)) + DigitVal(t[Len(t)])

\* The number written by digits, an optional dot and digits: t[from .. to - 1].
decimalValue(t, from, to) ==
    LET intEnd == digitsEnd(t, from)
        fracFrom == IF intEnd < to /\ At(t, intEnd) = "." THEN intEnd + 1 ELSE to
        fracTo == IF fracFrom < to THEN digitsEnd(t, fracFrom) ELSE fracFrom
        frac == SubSeq(t, fracFrom, fracTo - 1)
    IN  Frac(digitsValue(SubSeq(t, from, intEnd - 1)) * Pow10(Len(frac)) + digitsValue(frac),
             Pow10(Len(frac)))

\* parseFloat of a text that starts with a digit: its longest numeric prefix.
parseFloat(t) == decimalValue(t, 1, Len(t) + 1)

RECURSIVE intChars(_)
intChars(n) == IF n < 10 THEN <<DigitChar(n)>> ELSE intChars(n \div 10) \o <<DigitChar(n % 10)>>

\* The digits after the point of num / den < 1, a terminating decimal.
RECURSIVE fracChars(_, _)
fracChars(num, den) ==
    IF num = 0 THEN <<>>
    ELSE <<DigitChar((num * 10) \div den)>> \o fracChars((num * 10) % den, den)

\* String(value) of a finite value >= 0 with a terminating decimal expansion.
\* A value below 0.000001 is written with an exponent (1.5e-7).
numberToString(v) ==
    LET whole == v.n \div v.d
        rest == v.n % v.d
        frac == fracChars(rest, v.d)
    IN  IF rest = 0 THEN intChars(whole)
        ELSE IF whole > 0 \/ \E i \in 1 .. 6 : At(frac, i) # "0"
             THEN intChars(whole) \o <<".">> \o frac
        ELSE LET lead == CHOOSE i \in DOMAIN frac :
                             frac[i] # "0" /\ \A j \in 1 .. i - 1 : frac[j] = "0"
                 mant == SubSeq(frac, lead, Len(frac))
             IN  <<mant[1]>> \o (IF Len(mant) > 1 THEN <<".">> \o Tail(mant) ELSE <<>>)
                     \o <<"e", "-">> \o intChars(lead)

\* The end of a token \d[\d.,]* that starts at i.
RECURSIVE tokenEnd(_, _)
tokenEnd(t, i) ==
    IF At(t, i) \in Digits \cup {".", ","} THEN tokenEnd(t, i + 1) ELSE i

\* expr.replace(/(\d[\d.,]*)(%?)/g, ...): every number token, with its % if
\* it has one, is replaced by the text of its value.
RECURSIVE replaceTokens(_, _)
replaceTokens(t, i) ==
    IF i > Len(t) THEN <<>>
    ELSE IF t[i] \in Digits
         THEN LET e == tokenEnd(t, i)
                  pct == At(t, e) = "%"
                  parsed == parseFloat(normalizeNumberToken(SubSeq(t, i, e - 1)))
                  value == IF pct THEN NumTimes(parsed, Frac(1, 100)) ELSE parsed
              IN  numberToString(value) \o replaceTokens(t, IF pct THEN e + 1 ELSE e)
         ELSE <<t[i]>> \o replaceTokens(t, i + 1)

ExprChars == Digits \cup {"+", "-", "*", "/", "(", ")", ".", ",", "%"}
Whitespace == {" ", "\t"}

RECURSIVE trimLeft(_)
trimLeft(t) == IF t # <<>> /\ Head(t) \in Whitespace THEN trimLeft(Tail(t)) ELSE t

RECURSIVE removeSpaces(_)
removeSpaces(t) ==
    IF t = <<>> THEN <<>>
    ELSE (IF Head(t) \in Whitespace THEN <<>> ELSE <<Head(t)>>) \o removeSpaces(Tail(t))

\* normalizeNumericExpression (App.tsx 82-94); <<>> is ''.
normalizeNumericExpression(raw) ==
    LET trimmed == trimLeft(raw)
        noEq == IF trimmed # <<>> /\ Head(trimmed) = "=" THEN Tail(trimmed) ELSE trimmed
        expr == removeSpaces(noEq)
    IN  IF expr = <<>> \/ \E i \in DOMAIN expr : expr[i] \notin ExprChars THEN <<>>
        ELSE replaceTokens(expr, 1)

\* evaluateExpression (App.tsx 96-180).  A result is the value and the index
\* of the next character, or a thrown Error.
Thrown == [ok |-> FALSE, v |-> NaNV, i |-> 0]
Parsed(v, i) == [ok |-> TRUE, v |-> v, i |-> i]

\* readNumber: the end of the number that starts at i.
RECURSIVE numberEnd(_, _, _)
numberEnd(expr, i, hasDot) ==
    IF At(expr, i) \in Digits THEN numberEnd(expr, i + 1, hasDot)
    ELSE IF At(expr, i) = "." /\ ~hasDot THEN numberEnd(expr, i + 1, TRUE)
    ELSE i

\* Number(numStr) of digits with at most one dot.
numberOf(numStr) ==
    LET dot == IF Has(numStr, ".") THEN lastIndexOf(numStr, ".") ELSE Len(numStr) + 1
        frac == SubSeq(numStr, dot + 1, Len(numStr))
    IN  Frac(digitsValue(SubSeq(numStr, 1, dot - 1)) * Pow10(Len(frac)) + digitsValue(frac),
             Pow10(Len(frac)))

readNumber(expr, i) ==
    LET e == IF At(expr, i) = "." THEN numberEnd(expr, i + 1, TRUE)
             ELSE numberEnd(expr, i, FALSE)
        numStr == SubSeq(expr, i, e - 1)
    IN  IF numStr = <<>> \/ numStr = <<".">> THEN Thrown ELSE Parsed(numberOf(numStr), e)

\* parseExpression, parseTerm and parseFactor (App.tsx 125-171) as one
\* recursive function of the grammar rule; "termRest" and "expressionRest"
\* are the while loops of parseTerm and parseExpression, entered with the
\* value read so far.
RECURSIVE parse(_, _, _, _)
parse(rule, expr, i, value) ==
    CASE rule = "factor" ->
            LET ch == At(expr, i)
            IN  IF ch = "+" THEN parse("factor", expr, i + 1, Thrown)
                ELSE IF ch = "-"
                     THEN LET r == parse("factor", expr, i + 1, Thrown)
                          IN  IF r.ok THEN Parsed(JsNeg(r.v), r.i) ELSE Thrown
                ELSE IF ch = "("
                     THEN LET r == parse("expression", expr, i + 1, Thrown)
                          IN  IF r.ok /\ At(expr, r.i) = ")" THEN Parsed(r.v, r.i + 1)
                              ELSE Thrown
                ELSE readNumber(expr, i)
      [] rule = "term" ->
            parse("termRest", expr, i, parse("factor", expr, i, Thrown))
      [] rule = "termRest" ->
            IF ~value.ok THEN Thrown
            ELSE LET ch == At(expr, value.i)
                 IN  IF ch \in {"*", "/"}
                     THEN LET rhs == parse("factor", expr, value.i + 1, Thrown)
                          IN  IF ~rhs.ok THEN Thrown
                              ELSE parse("termRest", expr, i,
                                       Parsed(IF ch = "*" THEN JsTimes(value.v, rhs.v)
                                              ELSE JsDiv(value.v, rhs.v), rhs.i))
                     ELSE value
      [] rule = "expression" ->
            parse("expressionRest", expr, i, parse("term", expr, i, Thrown))
      [] OTHER ->
            IF ~value.ok THEN Thrown
            ELSE LET ch == At(expr, value.i)
                 IN  IF ch \in {"+", "-"}
                     THEN LET rhs == parse("term", expr, value.i + 1, Thrown)
                          IN  IF ~rhs.ok THEN Thrown
                              ELSE parse("expressionRest", expr, i,
                                       Parsed(IF ch = "+" THEN JsPlus(value.v, rhs.v)
                                              ELSE JsMinus(value.v, rhs.v), rhs.i))
                     ELSE value

parseExpression(expr, i) == parse("expression", expr, i, Thrown)

evaluateExpression(expr) ==
    LET result == parseExpression(expr, 1)
    IN  IF result.ok /\ result.i = Len(expr) + 1 THEN result ELSE Thrown

\* parseNumericInput (App.tsx 182-192): a finite number, or NaN.
parseNumericInput(raw) ==
    IF raw = <<>> THEN NaNV
    ELSE LET expr == normalizeNumericExpression(raw)
         IN  IF expr = <<>> THEN NaNV
             ELSE LET result == evaluateExpression(expr)
                  IN  IF result.ok /\ result.v.k = "num" THEN result.v ELSE NaNV

(***************************************************************************)
(* recalcHierarchy (App.tsx 651-698).                                      *)
(***************************************************************************)
\* byId: a copy of every Line under its id.
byIdOf(allLines) == [i \in IdsOf(allLines) |-> find(allLines, i)]

\* childrenMap: the ids of the Lines whose parentId is set and names a Line
\* of the list, under that parent, in list order.
RECURSIVE childrenOf(_, _, _)
childrenOf(allLines, ids, p) ==
    IF allLines = <<>> THEN <<>>
    ELSE (IF /\ Head(allLines).parentId # NoId
             /\ Head(allLines).parentId \in ids
             /\ Head(allLines).parentId = p
          THEN <<Head(allLines).id>> ELSE <<>>)
         \o childrenOf(Tail(allLines), ids, p)

childrenMap(allLines) ==
    [p \in IdsOf(allLines) |-> childrenOf(allLines, IdsOf(allLines), p)]

\* Variants of ParentUnitCost that a recalculation must not behave as: the
\* stored unit_cost added to the children's sum, and the stored unit_cost kept.
ParentUnitCostAdds(sumChildren, line) == NumPlus(sumChildren, safeVal(line.unit_cost))

ParentUnitCostKeeps(sumChildren, line) == safeVal(line.unit_cost)

\* The derived unit cost of a parent: the sum of its children's totals.
ParentUnitCost(sumChildren, line) == sumChildren

\* computeTotal(id): the byId map after the call; the value returned is the
\* total it stores under id.
RECURSIVE computeTotal(_, _, _)
RECURSIVE computeChildren(_, _, _)
computeChildren(kids, byId, cm) ==
    IF kids = <<>> THEN byId
    ELSE computeChildren(Tail(kids), computeTotal(Head(kids), byId, cm), cm)

computeTotal(id, byId, cm) ==
    LET line == byId[id]
        childrenIds == cm[id]
        qty == safeVal(line.quantity)
        freq == safeVal(line.frequency)
    IN  IF childrenIds = <<>>
        THEN LET uCost == safeVal(line.unit_cost)
             IN  [byId EXCEPT ![id] =
                     [line EXCEPT !.quantity = qty, !.frequency = freq,
                                  !.unit_cost = uCost,
                                  !.total = NumTimes(NumTimes(qty, freq), uCost)]]
        ELSE LET after == computeChildren(childrenIds, byId, cm)
                 sumChildren ==
                     SumSeq([i \in DOMAIN childrenIds |-> after[childrenIds[i]].total])
                 parentUnitCost == ParentUnitCost(sumChildren, line)
             IN  [after EXCEPT ![id] =
                     [line EXCEPT !.quantity = qty, !.frequency = freq,
                                  !.unit_cost = parentUnitCost,
                                  !.total = NumTimes(NumTimes(qty, freq), parentUnitCost)]]

\* The Lines the final loop starts computeTotal from.
IsRecalcRoot(l) == l.parentId = NoId

RECURSIVE computeRoots(_, _, _)
computeRoots(rest, byId, cm) ==
    IF rest = <<>> THEN byId
    ELSE computeRoots(Tail(rest),
                      IF IsRecalcRoot(Head(rest))
                      THEN computeTotal(Head(rest).id, byId, cm) ELSE byId,
                      cm)

\* A variant of recalcHierarchy that returns the parentless Lines first.
recalcHierarchyRootsFirst(allLines) ==
    LET done == computeRoots(allLines, byIdOf(allLines), childrenMap(allLines))
        out == [i \in DOMAIN allLines |-> done[allLines[i].id]]
    IN  SelectSeq(out, LAMBDA l : l.parentId = NoId)
            \o SelectSeq(out, LAMBDA l : l.parentId # NoId)

recalcHierarchy(allLines) ==
    LET done == computeRoots(allLines, byIdOf(allLines), childrenMap(allLines))
    IN  [i \in DOMAIN allLines |-> done[allLines[i].id]]

\* A variant of computedLinesOf: the stored list as it is.
computedLinesStored(stored) == stored

\* useMemo(() => recalcHierarchy(lines), [lines]) (App.tsx 700).
computedLinesOf(stored) == recalcHierarchy(stored)

(***************************************************************************)
(* Lines and the history record.                                           *)
(***************************************************************************)
\* interface BudgetLine (App.tsx 16-23).
Line(id, sectionId, parentId, category, description, unit, quantity, frequency, unit_cost, total) ==
    [id |-> id, sectionId |-> sectionId, parentId |-> parentId,
     category |-> category, description |-> description, notes |-> <<>>,
     showNotes |-> FALSE, unit |-> unit,
     quantity |-> quantity, frequency |-> frequency, unit_cost |-> unit_cost,
     total |-> total, selected |-> FALSE]

\* interface BudgetSection (App.tsx 24); capType "" is no cap.
Section(id, name, capType, capValue) ==
    [id |-> id, name |-> name, collapsed |-> FALSE, capType |-> capType,
     capValue |-> capValue]

NumericFields == {"quantity", "frequency", "unit_cost"}
TextFields == {"category", "description", "unit", "notes"}

\* What the last operation was: its name, the Line id, field, numeric value,
\* text, section id and pasted rows it was given, and the ids it generated.
Op(op, id, field, val, txt, sec, rows, made) ==
    [op |-> op, id |-> id, field |-> field, val |-> val, txt |-> txt,
     sec |-> sec, rows |-> rows, made |-> made]

NoOp == Op("init", NoId, "", Undef, <<>>, NoId, <<>>, <<>>)

\* writeLineTree (App.tsx 293-298) over a worklist of <<id, depth>>: the ids
\* of the Lines in the order of their rows; sub-lines below depth 3 get none.
RECURSIVE writeLineTree(_, _)
writeLineTree(allLines, todo) ==
    IF todo = <<>> THEN <<>>
    ELSE LET id == Head(todo)[1]
             depth == Head(todo)[2]
             children == childIds(allLines, id)
             below == IF depth < 3
                      THEN [k \in DOMAIN children |-> <<children[k], depth + 1>>]
                      ELSE <<>>
         IN  <<id>> \o writeLineTree(allLines, below \o Tail(todo))

\* What a row's cell H evaluates to: D*F*G (App.tsx 284).
rowFormula(l) == JsTimes(JsTimes(l.quantity, l.frequency), l.unit_cost)

\* What the SUBTOTAL cell of a section evaluates to: SUM(H startRow : H endRow)
\* over the rows written for the section, 0 when there are none
\* (App.tsx 267-305).
sectionFormula(allLines, sId) ==
    LET IsMain(l) == l.sectionId = sId /\ l.parentId = NoId
        sectionLines == SelectSeq(allLines, IsMain)
        rows == writeLineTree(allLines, [k \in DOMAIN sectionLines |-> <<sectionLines[k].id, 1>>])
    IN  SumSeq([k \in DOMAIN rows |-> rowFormula(allLines[findIndex(allLines, rows[k])])])

\* generateBudgetExcel (App.tsx 260-322): what the SUBTOTAL cells and the
\* TOTAL GENERAL cell of the workbook evaluate to.
generateBudgetExcel(allSections, allLines) ==
    LET subtotals == [i \in DOMAIN allSections |-> sectionFormula(allLines, allSections[i].id)]
    IN  [subtotals |-> subtotals, total |-> SumSeq(subtotals)]

\* { sections, lines: computedLines } as handed to saveProjectInternal, to a
\* snapshot or to generateBudgetExcel, and the workbook the export writes.
Handed(to, allSections, allLines) ==
    [to |-> to, sections |-> allSections, lines |-> allLines,
     workbook |-> IF to = "export" THEN generateBudgetExcel(allSections, allLines) ELSE <<>>]

NothingSaved == Handed("", <<>>, <<>>)

(***************************************************************************)
(* The operations of the editor on the flat list, as functions of the      *)
(* stored list (the argument of the setLines updater).                     *)
(***************************************************************************)
\* updateLine (App.tsx 732-755), the list it stores.  value is a number for a
\* numeric field and a text for the others.
updateLine(allLines, id, field, value) ==
    LET nextLines ==
            [i \in DOMAIN allLines |->
                LET l == allLines[i]
                IN  IF l.id = id
                    THEN IF field \in NumericFields
                         THEN LET u == [l EXCEPT ![field] = safeVal(value)]
                              IN  [u EXCEPT !.total =
                                      JsTimes(JsTimes(JsToNumber(JsOrZero(u.quantity)),
                                                      JsToNumber(JsOrZero(u.frequency))),
                                              JsToNumber(JsOrZero(u.unit_cost)))]
                         ELSE [l EXCEPT ![field] = value]
                    ELSE l]
    IN  recalcHierarchy(nextLines)

\* A variant of getDescendantIds that stops at the children.
getChildIdsOnly(lineId, allLines) == childIds(allLines, lineId)

\* getDescendantIds (App.tsx 767-779): a stack of ids still to expand; every
\* child found is appended to ids and pushed.  On a cycle of parent links the
\* loop never ends; the walk is cut as soon as ids is longer than the list,
\* which happens only then.
RECURSIVE descendantLoop(_, _, _)
descendantLoop(stack, ids, allLines) ==
    IF stack = <<>> \/ Len(ids) > Len(allLines) THEN ids
    ELSE LET current == stack[Len(stack)]
             children == childIds(allLines, current)
         IN  descendantLoop(SubSeq(stack, 1, Len(stack) - 1) \o children,
                            ids \o children, allLines)

getDescendantIds(lineId, allLines) == descendantLoop(<<lineId>>, <<>>, allLines)

getDescendantIdsLoops(lineId, allLines) ==
    Len(getDescendantIds(lineId, allLines)) > Len(allLines)

SeqToSet(s) == {s[i] : i \in DOMAIN s}

\* prev.filter(keep)
RECURSIVE filterOut(_, _)
filterOut(allLines, gone) ==
    IF allLines = <<>> THEN <<>>
    ELSE (IF Head(allLines).id \in gone THEN <<>> ELSE <<Head(allLines)>>)
         \o filterOut(Tail(allLines), gone)

\* A variant of deletedIds that removes the Line alone.
deletedIdsAlone(lineId, allLines) == {lineId}

\* The ids deleteLine removes: the Line and its descendants.
deletedIds(lineId, allLines) ==
    {lineId} \cup SeqToSet(getDescendantIds(lineId, allLines))

\* deleteLine (App.tsx 781-789), the list it stores.
deleteLine(allLines, lineId) ==
    IF lineId \notin IdsOf(allLines) THEN allLines
    ELSE filterOut(allLines, deletedIds(lineId, allLines))

\* duplicateLine.build (App.tsx 796-801): the subtree in depth-first order, a
\* Line before its children, the children in list order.  fuel cuts the
\* recursion, which does not end on a cycle of parent links.
RECURSIVE build(_, _, _)
RECURSIVE buildAll(_, _, _)
buildAll(ids, allLines, fuel) ==
    IF ids = <<>> THEN <<>>
    ELSE build(Head(ids), allLines, fuel) \o buildAll(Tail(ids), allLines, fuel)

build(id, allLines, fuel) ==
    IF id \notin IdsOf(allLines) \/ fuel = 0 THEN <<>>
    ELSE <<find(allLines, id)>> \o buildAll(childIds(allLines, id), allLines, fuel - 1)

subtreeOf(lineId, allLines) == build(lineId, allLines, Len(allLines) + 1)

\* idMap: the i-th Line of the subtree gets the i-th generated id.
idMapOf(subtree, firstId) ==
    [id \in IdsOf(subtree) |-> firstId + findIndex(subtree, id) - 1]

\* A variant of cloneParent that does not remap.
cloneParentKept(l, idMap) == l.parentId

\* The parentId of the clone of l.
cloneParent(l, idMap) ==
    IF l.parentId # NoId
    THEN (IF l.parentId \in DOMAIN idMap THEN idMap[l.parentId] ELSE l.parentId)
    ELSE l.parentId

clonesOf(subtree, idMap) ==
    [i \in DOMAIN subtree |->
        [subtree[i] EXCEPT !.id = idMap[subtree[i].id],
                           !.parentId = cloneParent(subtree[i], idMap)]]

\* Math.max over the positions of the subtree's Lines.
maxIndex(subtree, allLines) ==
    CHOOSE m \in {findIndex(allLines, subtree[i].id) : i \in DOMAIN subtree} :
        \A i \in DOMAIN subtree : findIndex(allLines, subtree[i].id) <= m

\* A variant of insertAt: right after the Line that is duplicated.
insertAfterRoot(subtree, allLines) == findIndex(allLines, subtree[1].id)

\* Where duplicateLine splices the clones in: after insertAt Lines.
insertAt(subtree, allLines) == maxIndex(subtree, allLines)

\* duplicateLine (App.tsx 791-818), the list it stores; firstId is the first
\* id generateId() returns.
duplicateLine(allLines, lineId, firstId) ==
    IF lineId \notin IdsOf(allLines) THEN allLines
    ELSE LET subtree == subtreeOf(lineId, allLines)
             clones == clonesOf(subtree, idMapOf(subtree, firstId))
             at == insertAt(subtree, allLines)
         IN  SubSeq(allLines, 1, at) \o clones
                 \o SubSeq(allLines, at + 1, Len(allLines))

\* A variant of handleDropOnSection that leaves the descendants where they are.
handleDropAlone(allLines, dragged, sectionId) ==
    [i \in DOMAIN allLines |->
        IF allLines[i].id = dragged
        THEN [allLines[i] EXCEPT !.sectionId = sectionId, !.parentId = NoId]
        ELSE allLines[i]]

\* handleDropOnSection (App.tsx 871-885), the list it stores.
handleDropOnSection(allLines, dragged, sectionId) ==
    IF dragged \notin IdsOf(allLines) THEN allLines
    ELSE LET descendantIds == SeqToSet(getDescendantIds(dragged, allLines))
         IN  [i \in DOMAIN allLines |->
                 LET l == allLines[i]
                 IN  IF l.id = dragged
                     THEN [l EXCEPT !.sectionId = sectionId, !.parentId = NoId]
                     ELSE IF l.id \in descendantIds
                          THEN [l EXCEPT !.sectionId = sectionId]
                          ELSE l]

\* toggleNotes (App.tsx 757), the list it stores.
toggleNotes(allLines, id) ==
    [i \in DOMAIN allLines |->
        IF allLines[i].id = id
        THEN [allLines[i] EXCEPT !.showNotes = ~allLines[i].showNotes]
        ELSE allLines[i]]

\* A variant of addNewLine that puts the new Line first, with quantity 0.
addNewLineFirst(allLines, id, sId, parentId) ==
    <<Line(id, sId, parentId, <<>>, <<>>, <<"U", "n", "i", "d">>,
           Num(0), Num(1), Num(0), Num(0))>> \o allLines

\* addNewLine (App.tsx 760-765), the list it stores.
addNewLine(allLines, id, sId, parentId) ==
    Append(allLines, Line(id, sId, parentId, <<>>, <<>>, <<"U", "n", "i", "d">>,
                            Num(1), Num(1), Num(0), Num(0)))

\* A clipboard text is the sequence of its rows, each ended by a line break;
\* a row is the sequence of its tab-separated cells.  The length of a row:
RECURSIVE rowLength(_)
rowLength(row) ==
    IF Len(row) <= 1 THEN (IF row = <<>> THEN 0 ELSE Len(row[1]))
    ELSE Len(row[1]) + 1 + rowLength(Tail(row))

\* A variant of pastedRows that keeps the empty rows.
pastedRowsAll(text) == text

\* text.split(/\r\n|\n|\r/).filter(r => r.length > 0)
RECURSIVE pastedRows(_)
pastedRows(text) ==
    IF text = <<>> THEN <<>>
    ELSE (IF rowLength(Head(text)) > 0 THEN <<Head(text)>> ELSE <<>>) \o pastedRows(Tail(text))

\* handlePaste (App.tsx 887-912), the list it stores: row i goes to the Line
\* i places below lineId in the flat list; nothing is recalculated.
handlePaste(allLines, lineId, field, text) ==
    LET rows == pastedRows(text)
        startIndex == findIndex(allLines, lineId)
    IN  IF startIndex = 0 THEN allLines
        ELSE [targetIndex \in DOMAIN allLines |->
                 LET i == targetIndex - startIndex + 1
                     currentLine == allLines[targetIndex]
                 IN  IF i \notin DOMAIN rows THEN currentLine
                     ELSE IF field \in NumericFields
                          THEN LET parsed == parseNumericInput(rows[i][1])
                                   val == IF parsed.k = "num" THEN parsed ELSE Num(0)
                                   u == [currentLine EXCEPT ![field] = val]
                               IN  [u EXCEPT !.total =
                                       JsTimes(JsTimes(JsToNumber(u.quantity),
                                                       JsToNumber(u.frequency)),
                                               JsToNumber(u.unit_cost))]
                          ELSE [currentLine EXCEPT ![field] = rows[i][1]]]

(***************************************************************************)
(* The aggregates (App.tsx 986-988).                                       *)
(***************************************************************************)
\* A Line that counts as top-level: !l.parentId.
IsTopLevel(l) == l.parentId = NoId

\* A variant of grandTotalOf over every Line, parent or not.
grandTotalOfAll(computed) == SumSeq([i \in DOMAIN computed |-> computed[i].total])

grandTotalOf(computed) ==
    SumSeq([i \in DOMAIN computed |->
               IF IsTopLevel(computed[i]) THEN computed[i].total ELSE Num(0)])

grandTotal == grandTotalOf(computedLines)

sectionTotalOf(computed, sId) ==
    SumSeq([i \in DOMAIN computed |->
               IF computed[i].sectionId = sId /\ IsTopLevel(computed[i])
               THEN computed[i].total ELSE Num(0)])

hasChildren(lineId) == \E i \in DOMAIN computedLines : computedLines[i].parentId = lineId

(***************************************************************************)
(* The section caps (App.tsx 1047, 1097-1100, 1110-1129).                  *)
(***************************************************************************)
\* updateSection (App.tsx 1047), the sections it stores.
updateSection(allSections, id, capType, capValue) ==
    [i \in DOMAIN allSections |->
        IF allSections[i].id = id
        THEN [allSections[i] EXCEPT !.capType = capType, !.capValue = capValue]
        ELSE allSections[i]]

\* parseFloat(e.target.value) || 0 on the text of a number box: empty, or
\* digits with an optional point.
capValueOf(text) == IF text = <<>> THEN Num(0) ELSE JsOrZero(parseFloat(text))

Null == [k |-> "null", n |-> 0, d |-> 1]

sectionTotal(s) == sectionTotalOf(computedLines, s.id)

capLimit(s) ==
    IF s.capType # ""
    THEN (IF s.capType = "amount"
          THEN JsOrZero(s.capValue)
          ELSE JsTimes(grandTotal, JsDiv(JsOrZero(s.capValue), Num(100))))
    ELSE Null

\* A variant of isOverCap that flags a subtotal equal to the limit.
isOverCapAtLimit(s) == capLimit(s) # Null /\ ~NumLess(sectionTotal(s), capLimit(s))

isOverCap(s) == capLimit(s) # Null /\ NumLess(capLimit(s), sectionTotal(s))

(***************************************************************************)
(* The filter (App.tsx 701-730).                                           *)
(***************************************************************************)
UpperCase == <<"A", "B", "C", "D", "E", "F", "G", "H", "I", "J", "K", "L", "M",
               "N", "O", "P", "Q", "R", "S", "T", "U", "V", "W", "X", "Y", "Z">>
LowerCase == <<"a", "b", "c", "d", "e", "f", "g", "h", "i", "j", "k", "l", "m",
               "n", "o", "p", "q", "r", "s", "t", "u", "v", "w", "x", "y", "z">>

\* String.prototype.toLowerCase
toLowerCase(t) ==
    [i \in DOMAIN t |->
        IF \E j \in DOMAIN UpperCase : UpperCase[j] = t[i]
        THEN LowerCase[CHOOSE j \in DOMAIN UpperCase : UpperCase[j] = t[i]]
        ELSE t[i]]

\* String.prototype.toUpperCase
toUpperCase(t) ==
    [i \in DOMAIN t |->
        IF \E j \in DOMAIN LowerCase : LowerCase[j] = t[i]
        THEN UpperCase[CHOOSE j \in DOMAIN LowerCase : LowerCase[j] = t[i]]
        ELSE t[i]]

\* String.prototype.includes
includes(t, term) ==
    \E i \in 0 .. Len(t) - Len(term) : SubSeq(t, i + 1, i + Len(term)) = term

\* getChildren(parentId), as ids in list order.
getChildren(parentId) == childIds(computedLines, parentId)

matchesFilter(line, term) ==
    \/ includes(toLowerCase(line.description), term)
    \/ includes(toLowerCase(line.category), term)

\* hasDescendantMatch(lineId, term).  fuel cuts the recursion, which does not
\* end on a cycle of parent links.
RECURSIVE hasDescendantMatchIn(_, _, _)
hasDescendantMatchIn(lineId, term, fuel) ==
    /\ fuel > 0
    /\ \E i \in DOMAIN getChildren(lineId) :
           LET child == find(computedLines, getChildren(lineId)[i])
           IN  \/ matchesFilter(child, term)
               \/ hasDescendantMatchIn(child.id, term, fuel - 1)

\* A variant of hasDescendantMatch that finds no match.
hasDescendantMatchNever(lineId, term) == FALSE

hasDescendantMatch(lineId, term) ==
    hasDescendantMatchIn(lineId, term, Len(computedLines))

\* hasAncestorMatch(line, term): the walk up the parent links; fuel cuts it on
\* a cycle without a match.
RECURSIVE hasAncestorMatchIn(_, _, _)
hasAncestorMatchIn(current, term, fuel) ==
    /\ fuel > 0
    /\ current.parentId # NoId
    /\ current.parentId \in IdsOf(computedLines)
    /\ LET parent == find(computedLines, current.parentId)
       IN  \/ matchesFilter(parent, term)
           \/ hasAncestorMatchIn(parent, term, fuel - 1)

\* A variant of hasAncestorMatch that never finds one.
hasAncestorMatchNever(line, term) == FALSE

hasAncestorMatch(line, term) == hasAncestorMatchIn(line, term, Len(computedLines))

isLineVisible(l) ==
    IF filterText = <<>> THEN TRUE
    ELSE LET lower == toLowerCase(filterText)
         IN  \/ matchesFilter(l, lower)
             \/ hasDescendantMatch(l.id, lower)
             \/ hasAncestorMatch(l, lower)

(***************************************************************************)
(* What the table shows (App.tsx 990-1046, 1097-1148): the top-level Lines *)
(* of every section and, under each, its children.                         *)
(***************************************************************************)
SectionIds == {sections[i].id : i \in DOMAIN sections}

\* The depth at which renderLineTree draws the Line, 0 when it is not drawn.
RECURSIVE renderDepth(_, _)
renderDepth(id, fuel) ==
    IF id \notin IdsOf(computedLines) \/ fuel = 0 THEN 0
    ELSE LET l == find(computedLines, id)
         IN  IF ~isLineVisible(l) THEN 0
             ELSE IF l.parentId = NoId
             THEN (IF l.sectionId \in SectionIds THEN 1 ELSE 0)
             ELSE LET up == renderDepth(l.parentId, fuel - 1)
                  IN  IF up = 0 THEN 0 ELSE up + 1

\* A variant of renderSection: the first section, whatever the row.
renderSectionFirst(id, fuel) == sections[1].id

\* The sectionId renderLineTree is called with: the section of the top-level
\* Line the walk started from.
RECURSIVE renderSection(_, _)
renderSection(id, fuel) ==
    LET l == find(computedLines, id)
    IN  IF l.parentId = NoId \/ fuel = 0 THEN l.sectionId
        ELSE renderSection(l.parentId, fuel - 1)

Shown(id) == renderDepth(id, Len(lines) + 1) > 0

\* getOrderedLinesForSection.add (App.tsx 841-845) over a worklist of ids: the
\* ids pushed, a Line before its children; fuel cuts the walk, which does not
\* end on a cycle of parent links.
RECURSIVE orderedFrom(_, _)
orderedFrom(todo, fuel) ==
    IF todo = <<>> \/ fuel = 0 THEN <<>>
    ELSE IF ~isLineVisible(find(computedLines, Head(todo)))
         THEN orderedFrom(Tail(todo), fuel - 1)
         ELSE <<Head(todo)>>
                  \o orderedFrom(getChildren(Head(todo)) \o Tail(todo), fuel - 1)

\* getOrderedLinesForSection (App.tsx 838-848), as the list of ids.
getOrderedLinesForSection(sectionId) ==
    LET IsRoot(l) == l.sectionId = sectionId /\ l.parentId = NoId
        roots == SelectSeq(computedLines, IsRoot)
    IN  orderedFrom([k \in DOMAIN roots |-> roots[k].id], Len(computedLines))
ShownIds == {id \in IdsOf(lines) : Shown(id)}

MaxDepth == 3      \* canAddSub = depth < 3

\* A variant of canAddSub that allows a sub-line at any depth.
canAddSubAlways(depth) == TRUE

canAddSub(depth) == depth < MaxDepth

(***************************************************************************)
(* The cost lookup (App.tsx 643-648).                                      *)
(***************************************************************************)
\* triggerSearch(t): an empty query clears the suggestions at once; any other
\* is sent to searchCost and answered later.
searchCleared(t, shown) == IF t = <<>> THEN <<>> ELSE shown
searchSent(t, inflight) == IF t = <<>> THEN inflight ELSE Append(inflight, t)

\* The records the lookup can return.
CostItems ==
    { [description |-> <<"b">>, category |-> <<"c">>, unit |-> <<"d", "i", "a">>,
       unit_cost |-> Num(7)],
      [description |-> <<>>, category |-> <<"a">>, unit |-> <<"m", "e", "s">>,
       unit_cost |-> Num(9)] }

(***************************************************************************)
(* The editor specification.                                               *)
(***************************************************************************)
EditTexts == {<<"a">>, <<>>}
EditNumbers == {Num(2), Num(0)}

\* The columns whose cells take a paste (App.tsx 1013-1034).
PasteFields == {"category", "description", "quantity", "unit", "frequency", "unit_cost"}

\* Clipboard texts: the rows "3" and "4<tab>x"; an empty row, "10%" and "x".
Clipboards ==
    { << << <<"3">> >>, << <<"4">>, <<"x">> >> >>,
      << << <<>> >>, << <<"1", "0", "%">> >>, << <<"x">> >> >> }

\* A saved project: a Line with two sub-lines, the first of which got a
\* sub-line of its own after its sibling was added, and a Line of the other
\* section.  Saved lists are recalculated ones.
SavedLines ==
    recalcHierarchy(
        << [Line(3, 1, NoId, <<>>, <<"a">>, <<"U", "n", "i", "d">>,
                 Num(1), Num(12), Num(0), Num(0))
               EXCEPT !.notes = <<"n">>, !.showNotes = TRUE, !.selected = TRUE],
           Line(4, 1, 3, <<"c">>, <<"b">>, <<"d", "i", "a">>, Num(1), Num(1), Num(10), Num(10)),
           Line(5, 1, 3, <<"c">>, <<>>, <<"d", "i", "a">>, Num(1), Num(1), Num(5), Num(5)),
           Line(6, 1, 4, <<>>, <<"a", "b">>, <<"U", "n", "i", "d">>,
                Num(2), Num(1), Num(3), Num(6)) >>)

\* A list opened from the memory: every total is the product of the Line's own
\* stored fields.
MemoryLines ==
    << Line(5, 2, NoId, <<"c">>, <<"C">>, <<"U", "n", "d">>,
            Num(1), Num(3), Num(0 - 1), Num(0 - 3)),
       Line(3, 1, NoId, <<"a">>, <<"a">>, <<"U", "n", "d">>, Num(1), Num(1), Num(0), Num(0)),
       Line(4, 1, 3, <<"a">>, <<"b">>, <<"U", "n", "d">>, Num(2), Num(1), Num(4), Num(8)) >>

TwoSections == << Section(1, <<"P", "E", "R", "S", "O", "N", "A", "L">>, "", Undef), Section(2, <<"V", "I", "A", "J", "E", "S">>, "", Undef) >>

InitialData ==
    { [sections |-> TwoSections, lines |-> SavedLines],
      [sections |-> TwoSections, lines |-> MemoryLines],
      [sections |-> << Section(1, <<"P", "e", "r", "s", "o", "n", "a", "l">>, "", Undef) >>, lines |-> <<>>] }

Init ==
    /\ \E data \in InitialData :
           /\ sections = data.sections
           /\ lines = data.lines
           /\ computedLines = computedLinesOf(data.lines)
    /\ activeRowId = NoId
    /\ draggedLineId = NoId
    /\ suggestions = <<>>
    /\ pending = <<>>
    /\ nextId = 7
    /\ filterText = <<>>
    /\ saved = NothingSaved
    /\ steps = 0
    /\ prev = <<>>
    /\ last = NoOp

\* Every operation is one step and records what the list was.
Record(op) ==
    /\ steps < MaxSteps
    /\ steps' = steps + 1
    /\ prev' = lines
    /\ last' = op

\* An operation on the list or the sections: it leaves the filter box and
\* what was handed out alone.
Step(op) ==
    /\ Record(op)
    /\ UNCHANGED <<filterText, saved>>

\* setLines(newLines), and the render that follows it.
setLines(newLines) ==
    /\ lines' = newLines
    /\ computedLines' = computedLinesOf(newLines)

\* A text cell's onChange: updateLine(line.id, field, v).
CellEditText(id, field, text) ==
    /\ steps < MaxSteps
    /\ field = "notes" => find(computedLines, id).showNotes
    /\ Step(Op("updateLine", id, field, Undef, text, NoId, <<>>, <<>>))
    /\ setLines(updateLine(lines, id, field, text))
    /\ IF field = "description" \/ (field = "category" /\ find(lines, id).description = <<>>)
       THEN /\ suggestions' = searchCleared(text, suggestions)
            /\ pending' = searchSent(text, pending)
       ELSE UNCHANGED <<suggestions, pending>>
    /\ UNCHANGED <<sections, activeRowId, draggedLineId, nextId>>

\* A numeric cell's onCommit: updateLine(line.id, field, v) with the parsed
\* number; the unit_cost cell of a row with children is disabled.
CellEditNumber(id, field, v) ==
    /\ steps < MaxSteps
    /\ field = "unit_cost" => ~hasChildren(id)
    /\ Step(Op("updateLine", id, field, v, <<>>, NoId, <<>>, <<>>))
    /\ setLines(updateLine(lines, id, field, v))
    /\ UNCHANGED <<sections, activeRowId, draggedLineId, suggestions, pending, nextId>>

\* NumericCellInput (App.tsx 194-222): the text typed into a numeric cell, on
\* change, blur and Enter: onCommit(parsed) when the text parses to a finite
\* number, nothing otherwise.
Drafts == {<<"x">>, <<"1", ".", "5">>}

NumericCellInput(id, field, draft) ==
    /\ steps < MaxSteps
    /\ field = "unit_cost" => ~hasChildren(id)
    /\ LET parsed == parseNumericInput(draft)
       IN  /\ Step(Op("numericInput", id, field, parsed, draft, NoId, <<>>, <<>>))
           /\ IF parsed.k = "num"
              THEN setLines(updateLine(lines, id, field, parsed))
              ELSE UNCHANGED <<lines, computedLines>>
    /\ UNCHANGED <<sections, activeRowId, draggedLineId, suggestions, pending, nextId>>

\* applyMatch (App.tsx 758): four updateLine calls on the active row.
applyMatchLines(allLines, id, m) ==
    updateLine(updateLine(updateLine(updateLine(allLines,
        id, "description", m.description), id, "unit", m.unit),
        id, "category", m.category), id, "unit_cost", m.unit_cost)

applyMatch(m) ==
    /\ steps < MaxSteps
    /\ suggestions # <<>>
    /\ activeRowId # NoId
    /\ Step(Op("applyMatch", activeRowId, "unit_cost", m.unit_cost, m.description,
               NoId, <<>>, <<>>))
    /\ setLines(applyMatchLines(lines, activeRowId, m))
    /\ IF activeRowId \in IdsOf(lines)
       THEN LET t1 == m.description
                t2 == IF m.description = <<>> THEN m.category ELSE <<>>
            IN  /\ suggestions' = searchCleared(t2, searchCleared(t1, suggestions))
                /\ pending' = searchSent(t2, searchSent(t1, pending))
       ELSE UNCHANGED <<suggestions, pending>>
    /\ UNCHANGED <<sections, activeRowId, draggedLineId, nextId>>

\* The notes button of a row: toggleNotes(line.id).
ToggleNotes(id) ==
    /\ Step(Op("toggleNotes", id, "", Undef, <<>>, NoId, <<>>, <<>>))
    /\ setLines(toggleNotes(lines, id))
    /\ UNCHANGED <<sections, activeRowId, draggedLineId, suggestions, pending, nextId>>

\* handleCellFocus (App.tsx 648).
handleCellFocus(id) ==
    /\ Step(Op("focus", id, "", Undef, <<>>, NoId, <<>>, <<>>))
    /\ activeRowId' = id
    /\ LET l == find(computedLines, id)
           t == IF l.description # <<>> THEN l.description ELSE l.category
       IN  /\ suggestions' = searchCleared(t, suggestions)
           /\ pending' = searchSent(t, pending)
    /\ UNCHANGED <<lines, computedLines, sections, draggedLineId, nextId>>

\* The answer of a searchCost call arrives: its records, or none when the
\* lookup fails or finds nothing.  The answers arrive in the order of the
\* calls: the handler of 'search-cost' (index.src.main.ts 505-518) answers
\* one call before it takes the next.
searchCostReturns(i, found) ==
    /\ i \in DOMAIN pending
    /\ i = 1
    /\ suggestions' = IF found THEN pending[i] ELSE <<>>
    /\ pending' = SubSeq(pending, 1, i - 1) \o SubSeq(pending, i + 1, Len(pending))
    /\ UNCHANGED <<lines, computedLines, sections, activeRowId, draggedLineId, nextId,
                   filterText, saved, steps, prev, last>>

\* "+ Anadir linea a <section>", drawn when the filter is empty:
\* addNewLine(s.id).
AddLine(sId) ==
    /\ filterText = <<>>
    /\ Step(Op("addNewLine", nextId, "", Undef, <<>>, sId, <<>>, <<nextId>>))
    /\ setLines(addNewLine(lines, nextId, sId, NoId))
    /\ activeRowId' = nextId
    /\ nextId' = nextId + 1
    /\ UNCHANGED <<sections, draggedLineId, suggestions, pending>>

\* "+ Sub" on a row drawn at depth < 3: addNewLine(sectionId, line.id).
AddSubLine(id) ==
    /\ steps < MaxSteps
    /\ canAddSub(renderDepth(id, Len(lines) + 1))
    /\ LET sId == renderSection(id, Len(lines) + 1)
       IN  /\ Step(Op("addNewLine", nextId, "", Undef, <<>>, sId, <<>>, <<nextId>>))
           /\ setLines(addNewLine(lines, nextId, sId, id))
    /\ activeRowId' = nextId
    /\ nextId' = nextId + 1
    /\ UNCHANGED <<sections, draggedLineId, suggestions, pending>>

\* Ctrl+Enter in a cell: addNewLine(line.sectionId, line.parentId).
AddSibling(id) ==
    /\ LET l == find(computedLines, id)
       IN  /\ Step(Op("addNewLine", nextId, "", Undef, <<>>, l.sectionId, <<>>, <<nextId>>))
           /\ setLines(addNewLine(lines, nextId, l.sectionId, l.parentId))
    /\ activeRowId' = nextId
    /\ nextId' = nextId + 1
    /\ UNCHANGED <<sections, draggedLineId, suggestions, pending>>

\* The "Filtrar..." box (App.tsx 1076): setFilterText(e.target.value).
FilterTexts == {<<>>, <<"A", "B">>, <<"c">>}

setFilterText(text) ==
    /\ Record(Op("setFilterText", NoId, "", Undef, text, NoId, <<>>, <<>>))
    /\ filterText' = text
    /\ UNCHANGED <<lines, computedLines, sections, activeRowId, draggedLineId, suggestions,
                   pending, nextId, saved>>

\* The cap type select of a section header (App.tsx 1113).
CapTypes == {"", "amount", "percent"}

setCapType(sId, capType) ==
    /\ Step(Op("setCapType", NoId, capType, Undef, <<>>, sId, <<>>, <<>>))
    /\ sections' = updateSection(sections, sId, capType,
                                 IF capType = "" THEN Undef
                                 ELSE JsOrZero(find(sections, sId).capValue))
    /\ UNCHANGED <<lines, computedLines, activeRowId, draggedLineId, suggestions, pending,
                   nextId>>

\* The cap value box, drawn when the section has a cap type (App.tsx 1127).
CapTexts == {<<"5", "0">>, <<"1", "0", "0">>, <<>>}

setCapValue(sId, text) ==
    /\ find(sections, sId).capType # ""
    /\ Step(Op("setCapValue", NoId, "", capValueOf(text), text, sId, <<>>, <<>>))
    /\ sections' = updateSection(sections, sId, find(sections, sId).capType, capValueOf(text))
    /\ UNCHANGED <<lines, computedLines, activeRowId, draggedLineId, suggestions, pending,
                   nextId>>

\* "Guardar", "Foto" and "Exportar" (App.tsx 632-636, 1070-1075): each hands
\* out the sections and computedLines.
Targets == {"save", "takeSnapshot", "export"}

HandOut(to) ==
    /\ Record(Op(to, NoId, "", Undef, <<>>, NoId, <<>>, <<>>))
    /\ saved' = Handed(to, sections, computedLines)
    /\ UNCHANGED <<lines, computedLines, sections, activeRowId, draggedLineId, suggestions,
                   pending, nextId, filterText>>

\* restoreSnapshot (App.tsx 638-642), confirmed: the snapshot's sections and
\* Lines become the stored ones.
restoreSnapshot ==
    /\ saved.to = "takeSnapshot"
    /\ Step(Op("restoreSnapshot", NoId, "", Undef, <<>>, NoId, <<>>, <<>>))
    /\ sections' = saved.sections
    /\ setLines(saved.lines)
    /\ UNCHANGED <<activeRowId, draggedLineId, suggestions, pending, nextId>>

\* An item of result.data as the import returns it: texts, and a quantity
\* and a unit cost that are numbers, texts or missing.
Item(category, description, unit, quantity, unit_cost) ==
    [category |-> category, description |-> description, unit |-> unit,
     quantity |-> quantity, unit_cost |-> unit_cost]

\* A text as a value of an item.
TextV(t) == [k |-> "text", n |-> 0, d |-> 1, t |-> t]

\* t.replace(/,/g, '')
RECURSIVE removeCommas(_)
removeCommas(t) ==
    IF t = <<>> THEN <<>>
    ELSE (IF Head(t) = "," THEN <<>> ELSE <<Head(t)>>) \o removeCommas(Tail(t))

\* parseFloat(v ? String(v).replace(/,/g, '') : fallback) || fallback, for a
\* number or a text that starts with a digit or is no number at all
\* (App.tsx 944-948).
importNumber(v, fallback) ==
    CASE v.k = "num" -> IF v.n = 0 THEN fallback ELSE v
      [] v.k = "text" ->
            LET raw == removeCommas(v.t)
            IN  IF raw # <<>> /\ raw[1] \in Digits
                THEN (IF parseFloat(raw).n = 0 THEN fallback ELSE parseFloat(raw))
                ELSE fallback
      [] v.k = "inf" -> v
      [] OTHER -> fallback

\* The forEach of handleSmartImport (App.tsx 927-964): the sections and the
\* Lines to add, ids generated from id on; keys are the categories of
\* newSectionsMap in the order of secs.
RECURSIVE importItems(_, _, _, _, _)
importItems(data, id, keys, secs, lns) ==
    IF data = <<>> THEN [sections |-> secs, lines |-> lns, nextId |-> id]
    ELSE LET item == Head(data)
             categoryName == IF item.category = <<>> THEN <<"G", "e", "n", "e", "r", "a", "l">> ELSE item.category
             isNew == ~\E i \in DOMAIN keys : keys[i] = categoryName
             keys2 == IF isNew THEN Append(keys, categoryName) ELSE keys
             secs2 == IF isNew
                      THEN Append(secs, Section(id, toUpperCase(categoryName), "", Undef))
                      ELSE secs
             lineId == IF isNew THEN id + 1 ELSE id
             sectionId == secs2[CHOOSE i \in DOMAIN keys2 : keys2[i] = categoryName].id
             unitCost == importNumber(item.unit_cost, Num(0))
             qty == importNumber(item.quantity, Num(1))
         IN  importItems(Tail(data), lineId + 1, keys2, secs2,
                 Append(lns,
                        Line(lineId, sectionId, NoId,
                             IF item.category = <<>> THEN <<"V", "a", "r", "i", "o", "s">> ELSE item.category,
                             IF item.description = <<>> THEN <<"I", "t", "e", "m", " ", "i", "m", "p", "o", "r", "t", "a", "d", "o">>
                                                        ELSE item.description,
                             IF item.unit = <<>> THEN <<"U", "n", "d">> ELSE item.unit,
                             qty, Num(1), unitCost,
                             JsTimes(JsTimes(qty, Num(1)), unitCost))))

\* What the import returns: an item of a category the document has a section
\* for, with a unit cost written with a thousands separator; and three items,
\* two of one new category and one of none.
ImportData ==
    { << Item(<<"V", "i", "a", "j", "e", "s">>, <<"v">>, <<>>, Num(2), TextV(<<"1", ",", "2", "0", "0">>)) >>,
      << Item(<<"O", "t", "r", "o", "s">>, <<"o">>, <<"d">>, Undef, Num(5)),
         Item(<<>>, <<>>, <<>>, TextV(<<"x">>), Undef),
         Item(<<"O", "t", "r", "o", "s">>, <<"p">>, <<"d">>, Num(0), TextV(<<"3">>)) >> }

\* handleSmartImport (App.tsx 915-984) with result.data = data, not empty.
handleSmartImport(data) ==
    /\ data # <<>>
    /\ LET r == importItems(data, nextId, <<>>, <<>>, <<>>)
       IN  /\ Step(Op("handleSmartImport", NoId, "", Undef, <<>>, NoId, data,
                      [i \in 1 .. r.nextId - nextId |-> nextId + i - 1]))
           /\ sections' = sections \o r.sections
           /\ setLines(recalcHierarchy(lines \o r.lines))
           /\ nextId' = r.nextId
    /\ UNCHANGED <<activeRowId, draggedLineId, suggestions, pending>>

\* A variant of AddSection that adds the Line and not the section.
AddSectionLost ==
    /\ Step(Op("addSection", nextId + 1, "", Undef, <<>>, nextId, <<>>, <<nextId, nextId + 1>>))
    /\ setLines(addNewLine(lines, nextId + 1, nextId, NoId))
    /\ activeRowId' = nextId + 1
    /\ nextId' = nextId + 2
    /\ UNCHANGED <<sections, draggedLineId, suggestions, pending>>

\* "+ Seccion" (App.tsx 1066): a new section and its first Line.
AddSection ==
    /\ Step(Op("addSection", nextId + 1, "", Undef, <<>>, nextId, <<>>, <<nextId, nextId + 1>>))
    /\ sections' = Append(sections, Section(nextId, <<"N", "u", "e", "v", "a", " ", "S", "e", "c", "c", "i", "o", "n">>, "", Undef))
    /\ setLines(addNewLine(lines, nextId + 1, nextId, NoId))
    /\ activeRowId' = nextId + 1
    /\ nextId' = nextId + 2
    /\ UNCHANGED <<draggedLineId, suggestions, pending>>

\* Ctrl+Delete in a cell: deleteLine(line.id).
DeleteLine(id) ==
    /\ steps < MaxSteps
    /\ ~getDescendantIdsLoops(id, lines)
    /\ Step(Op("deleteLine", id, "", Undef, <<>>, NoId, <<>>, <<>>))
    /\ setLines(deleteLine(lines, id))
    /\ activeRowId' = NoId
    /\ UNCHANGED <<sections, draggedLineId, suggestions, pending, nextId>>

\* Ctrl+D in a cell: duplicateLine(line.id).
DuplicateLine(id) ==
    /\ LET n == Len(subtreeOf(id, lines))
       IN  /\ Step(Op("duplicateLine", id, "", Undef, <<>>, NoId, <<>>,
                      [i \in 1 .. n |-> nextId + i - 1]))
           /\ nextId' = nextId + n
    /\ setLines(duplicateLine(lines, id, nextId))
    /\ UNCHANGED <<sections, activeRowId, draggedLineId, suggestions, pending>>

\* handleDragStart (App.tsx 869).
handleDragStart(id) ==
    /\ Step(Op("dragStart", id, "", Undef, <<>>, NoId, <<>>, <<>>))
    /\ draggedLineId' = id
    /\ UNCHANGED <<lines, computedLines, sections, activeRowId, suggestions, pending, nextId>>

\* A drop on a section's header or on a row drawn in it:
\* handleDropOnSection(e, sectionId).
Drop(sId) ==
    /\ Step(Op("drop", draggedLineId, "", Undef, <<>>, sId, <<>>, <<>>))
    /\ IF draggedLineId = NoId
       THEN UNCHANGED <<lines, computedLines, draggedLineId>>
       ELSE /\ ~getDescendantIdsLoops(draggedLineId, lines)
            /\ setLines(handleDropOnSection(lines, draggedLineId, sId))
            /\ draggedLineId' = NoId
    /\ UNCHANGED <<sections, activeRowId, suggestions, pending, nextId>>

\* A paste of a text with line breaks into a cell: handlePaste(e, line.id,
\* field); the unit_cost cell of a row with children is disabled.
Paste(id, field, text) ==
    /\ steps < MaxSteps
    /\ field = "unit_cost" => ~hasChildren(id)
    /\ Step(Op("paste", id, field, Undef, <<>>, NoId, text, <<>>))
    /\ setLines(handlePaste(lines, id, field, text))
    /\ UNCHANGED <<sections, activeRowId, draggedLineId, suggestions, pending, nextId>>

Next ==
    \/ \E id \in ShownIds, field \in TextFields, text \in EditTexts :
          CellEditText(id, field, text)
    \/ \E id \in ShownIds, field \in NumericFields, v \in EditNumbers :
          CellEditNumber(id, field, v)
    \/ \E id \in ShownIds, field \in NumericFields, draft \in Drafts :
          NumericCellInput(id, field, draft)
    \/ \E m \in CostItems : applyMatch(m)
    \/ \E id \in ShownIds : ToggleNotes(id)
    \/ \E id \in ShownIds : handleCellFocus(id)
    \/ \E sId \in SectionIds : AddLine(sId)
    \/ \E id \in ShownIds : AddSubLine(id)
    \/ \E id \in ShownIds : AddSibling(id)
    \/ AddSection
    \/ \E id \in ShownIds : DeleteLine(id)
    \/ \E id \in ShownIds : DuplicateLine(id)
    \/ \E id \in ShownIds : handleDragStart(id)
    \/ \E sId \in SectionIds : Drop(sId)
    \/ \E id \in ShownIds, field \in PasteFields, text \in Clipboards : Paste(id, field, text)
    \/ \E i \in DOMAIN pending, found \in BOOLEAN : searchCostReturns(i, found)
    \/ \E text \in FilterTexts : setFilterText(text)
    \/ \E to \in Targets : HandOut(to)
    \/ restoreSnapshot
    \/ \E data \in ImportData : handleSmartImport(data)
    \/ \E sId \in SectionIds, capType \in CapTypes : setCapType(sId, capType)
    \/ \E sId \in SectionIds, text \in CapTexts : setCapValue(sId, text)

Spec == Init /\ [][Next]_vars

(***************************************************************************)
(* The recalculation specification: recalcHierarchy applied once to every  *)
(* list of at most MaxLen Lines with distinct ids, whatever their parent   *)
(* links (none, any Line of the list, the Line itself, no Line at all) and *)
(* whatever their stored numeric fields.                                   *)
(***************************************************************************)
\* Stored (quantity, frequency, unit_cost, total) of an input Line.
InputFields ==
    { <<Num(2), Num(3), Num(5), Num(0)>>,         \* numbers, a stale total
      <<Num(1), Num(1), Num(4), Num(4)>>,         \* numbers, the total in step
      <<BadStr, Str(3), NaNV, Num(7)>>,           \* malformed values
      <<Num(0 - 1), InfV, Undef, NaNV>> }         \* a negative and an infinity

InputParents(n) == {NoId} \cup (1 .. n) \cup {Dangling}

\* The list of n Lines with the parent links ps and the stored fields fs.
InputList(n, ps, fs) ==
    [i \in 1 .. n |->
        Line(i, 1, ps[i], <<>>, <<>>, <<"U", "n", "i", "d">>,
             fs[i][1], fs[i][2], fs[i][3], fs[i][4])]

InitRecalc ==
    /\ \E n \in 1 .. MaxLen :
           \E ps \in [1 .. n -> InputParents(n)], fs \in [1 .. n -> InputFields] :
               lines = InputList(n, ps, fs)
    /\ computedLines = <<>>
    /\ sections = <<>>
    /\ activeRowId = NoId
    /\ draggedLineId = NoId
    /\ suggestions = <<>>
    /\ pending = <<>>
    /\ nextId = MaxLen + 1
    /\ filterText = <<>>
    /\ saved = NothingSaved
    /\ steps = 0
    /\ prev = <<>>
    /\ last = NoOp

Recalculate ==
    /\ last.op = "init"
    /\ lines' = recalcHierarchy(lines)
    /\ prev' = lines
    /\ last' = Op("recalc", NoId, "", Undef, <<>>, NoId, <<>>, <<>>)
    /\ steps' = steps + 1
    /\ UNCHANGED <<computedLines, sections, activeRowId, draggedLineId, suggestions,
                   pending, nextId, filterText, saved>>

NextRecalc == Recalculate

SpecRecalc == InitRecalc /\ [][NextRecalc]_vars

(***************************************************************************)
(* The operations specification: the editor opened on any list of at most  *)
(* MaxLen Lines with distinct ids, whatever their parent links, and the    *)
(* structural operations applied to any Line of it, drawn as a row or not. *)
(* An operation whose loop or recursion does not end on the list is        *)
(* recorded as such and stores nothing.                                    *)
(***************************************************************************)
OpsFields == { <<Num(2), Num(3), Num(5), Num(30)>>, <<Num(1), Num(1), Num(4), Num(4)>> }

InitOps ==
    /\ \E n \in 1 .. MaxLen :
           \E ps \in [1 .. n -> InputParents(n)], fs \in [1 .. n -> OpsFields] :
               /\ lines = InputList(n, ps, fs)
               /\ computedLines = recalcHierarchy(InputList(n, ps, fs))
    /\ sections = << Section(1, <<"P", "E", "R", "S", "O", "N", "A", "L">>, "", Undef), Section(2, <<"V", "I", "A", "J", "E", "S">>, "", Undef) >>
    /\ activeRowId = NoId
    /\ draggedLineId = NoId
    /\ suggestions = <<>>
    /\ pending = <<>>
    /\ nextId = MaxLen + 1
    /\ filterText = <<>>
    /\ saved = NothingSaved
    /\ steps = 0
    /\ prev = <<>>
    /\ last = NoOp

\* build(lineId) recurses without end: the subtree it collects outgrows the list.
buildOverflows(lineId, allLines) == Len(subtreeOf(lineId, allLines)) > Len(allLines)

\* deleteLine(id), whatever the Line.
OpsDelete(id) ==
    /\ last.op = "init"
    /\ IF getDescendantIdsLoops(id, lines)
       THEN /\ Step(Op("deleteLine loops", id, "", Undef, <<>>, NoId, <<>>, <<>>))
            /\ UNCHANGED <<lines, computedLines, activeRowId>>
       ELSE /\ Step(Op("deleteLine", id, "", Undef, <<>>, NoId, <<>>, <<>>))
            /\ setLines(deleteLine(lines, id))
            /\ activeRowId' = NoId
    /\ UNCHANGED <<sections, draggedLineId, suggestions, pending, nextId>>

\* duplicateLine(id), whatever the Line.
OpsDuplicate(id) ==
    /\ last.op = "init"
    /\ IF buildOverflows(id, lines)
       THEN /\ Step(Op("duplicateLine overflows", id, "", Undef, <<>>, NoId, <<>>, <<>>))
            /\ UNCHANGED <<lines, computedLines, nextId>>
       ELSE LET n == Len(subtreeOf(id, lines))
            IN  /\ Step(Op("duplicateLine", id, "", Undef, <<>>, NoId, <<>>,
                           [i \in 1 .. n |-> nextId + i - 1]))
                /\ nextId' = nextId + n
                /\ setLines(duplicateLine(lines, id, nextId))
    /\ UNCHANGED <<sections, activeRowId, draggedLineId, suggestions, pending>>

\* handleDropOnSection(e, sId) while id is the dragged Line, whatever the Line.
OpsDrop(id, sId) ==
    /\ last.op = "init"
    /\ IF getDescendantIdsLoops(id, lines)
       THEN /\ Step(Op("handleDropOnSection loops", id, "", Undef, <<>>, sId, <<>>, <<>>))
            /\ UNCHANGED <<lines, computedLines>>
       ELSE /\ Step(Op("drop", id, "", Undef, <<>>, sId, <<>>, <<>>))
            /\ setLines(handleDropOnSection(lines, id, sId))
    /\ UNCHANGED <<sections, activeRowId, draggedLineId, suggestions, pending, nextId>>

NextOps ==
    \/ \E id \in IdsOf(lines) : OpsDelete(id)
    \/ \E id \in IdsOf(lines) : OpsDuplicate(id)
    \/ \E id \in IdsOf(lines), sId \in SectionIds : OpsDrop(id, sId)

SpecOps == InitOps /\ [][NextOps]_vars

(***************************************************************************)
(* Properties of recalcHierarchy.                                          *)
(***************************************************************************)
\* allLines has a Line whose parentId is id.
HasChild(allLines, id) == \E j \in DOMAIN allLines : allLines[j].parentId = id

\* The totals of the Lines of allLines whose parentId is id, summed.
ChildTotalSum(allLines, id) ==
    SumSeq([j \in DOMAIN allLines |->
               IF allLines[j].parentId = id /\ allLines[j].total.k = "num"
               THEN allLines[j].total ELSE Num(0)])

AllNumbers(l) ==
    /\ l.quantity.k = "num" /\ l.frequency.k = "num"
    /\ l.unit_cost.k = "num" /\ l.total.k = "num"

\* total is the number quantity * frequency * unit_cost of the Line's own fields.
TotalIsProduct(l) ==
    /\ AllNumbers(l)
    /\ l.total = NumTimes(NumTimes(l.quantity, l.frequency), l.unit_cost)

\* A parentId that is set and names no Line of the list, or the Line itself.
IsOrphan(allLines, l) ==
    /\ l.parentId # NoId
    /\ (l.parentId \notin IdsOf(allLines) \/ l.parentId = l.id)

\* No Line of the list is an orphan, and no Line is its own ancestor.
RECURSIVE ReachesRoot(_, _, _)
ReachesRoot(allLines, id, fuel) ==
    IF id = NoId THEN TRUE
    ELSE IF fuel = 0 \/ id \notin IdsOf(allLines) THEN FALSE
    ELSE ReachesRoot(allLines, find(allLines, id).parentId, fuel - 1)

WellFormed(allLines) ==
    /\ \A i, j \in DOMAIN allLines : allLines[i].id = allLines[j].id => i = j
    /\ \A i \in DOMAIN allLines :
           ReachesRoot(allLines, allLines[i].id, Len(allLines))

\* C1: after recalcHierarchy, every Line that has at least one child has
\* unit_cost equal to the sum of its children's recalculated totals and total
\* equal to quantity * frequency * unit_cost, for every input list.
C1_ParentDerived ==
    last.op = "recalc" =>
        \A i \in DOMAIN lines :
            HasChild(lines, lines[i].id) =>
                /\ TotalIsProduct(lines[i])
                /\ \A j \in DOMAIN lines :
                       lines[j].parentId = lines[i].id => lines[j].total.k = "num"
                /\ lines[i].unit_cost = ChildTotalSum(lines, lines[i].id)

\* C2: after recalcHierarchy, every Line of the list, whatever its parentId
\* refers to, has total = quantity * frequency * unit_cost on its own
\* sanitized output fields.
C2_EveryTotalIsProduct ==
    last.op = "recalc" => \A i \in DOMAIN lines : TotalIsProduct(lines[i])

\* C9: recalcHierarchy applied to its own output returns that output, Line by
\* Line and field by field.
C9_Idempotent ==
    last.op = "recalc" => recalcHierarchy(lines) = lines

\* C9 witness: a recalculation that changed a list in which a Line has a child.
C9_Witness ==
    /\ last.op = "recalc"
    /\ lines # prev
    /\ WellFormed(prev)
    /\ \E i \in DOMAIN lines :
           /\ HasChild(lines, lines[i].id)
           /\ lines[i].unit_cost # prev[i].unit_cost
           /\ lines[i].total.n # 0

\* The input with the parentId of its i-th Line cleared.
AsRoot(allLines, i) == [allLines EXCEPT ![i].parentId = NoId]

\* C10: a Line whose parentId names no Line of the list, or the Line itself,
\* comes out of recalcHierarchy exactly as it would with no parentId:
\* sanitized, with its total recomputed.
C10_OrphanIsRoot ==
    last.op = "recalc" =>
        \A i \in DOMAIN prev :
            IsOrphan(prev, prev[i]) =>
                lines[i] = [recalcHierarchy(AsRoot(prev, i))[i]
                                EXCEPT !.parentId = prev[i].parentId]

(***************************************************************************)
(* Properties of the editor's operations.  prev is the stored list before  *)
(* the last operation, lines the stored list after it, computedLines its   *)
(* recalculation.                                                          *)
(***************************************************************************)
\* x is below a: a is met on the chain of parentId links that starts at x.
RECURSIVE IsBelow(_, _, _, _)
IsBelow(allLines, x, a, fuel) ==
    IF fuel = 0 \/ x \notin IdsOf(allLines) THEN FALSE
    ELSE LET p == find(allLines, x).parentId
         IN  p = a \/ (p # NoId /\ IsBelow(allLines, p, a, fuel - 1))

\* The descendants of a: the transitive closure over the parentId links.
DescendantsOf(allLines, a) ==
    {x \in IdsOf(allLines) : a # NoId /\ IsBelow(allLines, x, a, Len(allLines))}

SubtreeIds(allLines, a) == {a} \cup DescendantsOf(allLines, a)

DistinctIds(allLines) ==
    \A i, j \in DOMAIN allLines : allLines[i].id = allLines[j].id => i = j

\* Ids that name no Line of the stored list.
AbsentIds == (NoId .. nextId) \ IdsOf(lines)

\* after, with its i-th Line as it is in before.
Restored(after, before, i) == [after EXCEPT ![i] = before[i]]

\* The positions the last paste wrote to.
PastedAt ==
    LET start == findIndex(prev, last.id)
    IN  {i \in DOMAIN prev : i - start + 1 \in DOMAIN pastedRows(last.rows)}

WriteValues == {Num(7), Num(0 - 4), BadStr}

\* The suggestion m without its unit_cost: the other three writes of applyMatch.
applyMatchNoCost(allLines, id, m) ==
    updateLine(updateLine(updateLine(allLines,
        id, "description", m.description), id, "unit", m.unit),
        id, "category", m.category)

\* C3: a write to the unit_cost of a Line that has a child, by updateLine, by
\* applyMatch or by a paste, is overwritten by the recalculation: the Line's
\* recalculated unit_cost is the sum of its children's totals, and the
\* recalculated list is what it is without the write.
C3_UnitCostLock ==
    /\ \A i \in DOMAIN lines :
           HasChild(lines, lines[i].id) =>
               \A v \in WriteValues :
                   LET r == updateLine(lines, lines[i].id, "unit_cost", v)
                   IN  /\ r = computedLines
                       /\ r[i].unit_cost = ChildTotalSum(r, lines[i].id)
    /\ (last.op = "applyMatch" /\ HasChild(prev, last.id)) =>
           /\ \E m \in CostItems :
                  /\ m.description = last.txt /\ m.unit_cost = last.val
                  /\ computedLines = applyMatchNoCost(prev, last.id, m)
           /\ find(computedLines, last.id).unit_cost = ChildTotalSum(computedLines, last.id)
    /\ (last.op = "paste" /\ last.field = "unit_cost") =>
           \A i \in PastedAt :
               HasChild(prev, prev[i].id) =>
                   /\ computedLines = recalcHierarchy(Restored(lines, prev, i))
                   /\ computedLines[i].unit_cost = ChildTotalSum(computedLines, prev[i].id)

\* C3 witness: a paste wrote a unit_cost on a Line with children, and the
\* recalculated list has the children's sum there, not the pasted number.
C3_Witness ==
    /\ last.op = "paste" /\ last.field = "unit_cost"
    /\ \E i \in PastedAt :
           /\ HasChild(prev, prev[i].id)
           /\ lines[i].unit_cost # prev[i].unit_cost
           /\ computedLines[i].unit_cost # lines[i].unit_cost
           /\ computedLines[i].unit_cost.n # 0

\* C4: deleteLine removes the Line and its N descendants, exactly those N + 1
\* Lines, keeps every other Line as it was and in its order, and leaves no
\* parentId that names a removed Line; for an id that is not in the list it
\* keeps the list.
C4_CascadeDelete ==
    /\ last.op = "deleteLine" =>
           LET gone == SubtreeIds(prev, last.id)
           IN  /\ Len(lines) + Cardinality(gone) = Len(prev)
               /\ lines = SelectSeq(prev, LAMBDA l : l.id \notin gone)
               /\ \A i \in DOMAIN lines : lines[i].parentId \notin gone
    /\ \A absent \in AbsentIds : deleteLine(lines, absent) = lines

\* C4 witness: a Line with a grandchild was deleted and other Lines remain.
C4_Witness ==
    /\ last.op = "deleteLine"
    /\ \E x \in DescendantsOf(prev, last.id) :
           find(prev, x).parentId # last.id
    /\ lines # <<>>

\* The id given to the clone of the Line o by the last duplicateLine.
CloneId(o) == last.made[findIndex(subtreeOf(last.id, prev), o)]

\* C5: duplicateLine of a Line whose subtree has N Lines adds N Lines with
\* fresh, distinct ids; each equals its original but for id and parentId; the
\* parentId of a clone is the clone of the original's parent, and that of the
\* root's clone is the root's own parentId; the originals are unchanged.
C5_DuplicateShape ==
    last.op = "duplicateLine" =>
        LET S == SubtreeIds(prev, last.id)
            new == IdsOf(lines) \ IdsOf(prev)
        IN  /\ Len(lines) = Len(prev) + Cardinality(S)
            /\ Cardinality(new) = Cardinality(S)
            /\ DistinctIds(lines)
            /\ new = {CloneId(o) : o \in S}
            /\ \A o \in S :
                   LET original == find(prev, o)
                   IN  find(lines, CloneId(o)) =
                           [original EXCEPT
                               !.id = CloneId(o),
                               !.parentId = IF o = last.id THEN original.parentId
                                            ELSE CloneId(original.parentId)]
            /\ SelectSeq(lines, LAMBDA l : l.id \in IdsOf(prev)) = prev

\* C5 witness: a Line that has a parent and a subtree of 3 Lines or more was
\* duplicated.
C5_Witness ==
    /\ last.op = "duplicateLine"
    /\ find(prev, last.id).parentId # NoId
    /\ Cardinality(SubtreeIds(prev, last.id)) >= 3

\* The position after which the clones are found: that of the last original.
LastOriginal == 
    CHOOSE m \in DOMAIN prev :
        /\ prev[m].id \in SubtreeIds(prev, last.id)
        /\ \A i \in DOMAIN prev : prev[i].id \in SubtreeIds(prev, last.id) => i <= m

\* The clones are one block right after the last original, between the Lines
\* that were before and after that position.
ClonesAreBlock ==
    LET n == Cardinality(SubtreeIds(prev, last.id))
    IN  /\ SubSeq(lines, 1, LastOriginal) = SubSeq(prev, 1, LastOriginal)
        /\ SubSeq(lines, LastOriginal + n + 1, Len(lines))
               = SubSeq(prev, LastOriginal + 1, Len(prev))
        /\ {lines[k].id : k \in LastOriginal + 1 .. LastOriginal + n}
               = {CloneId(o) : o \in SubtreeIds(prev, last.id)}

\* The position of the clone of o in the stored list.
ClonePos(o) == findIndex(lines, CloneId(o))

\* C6 as stated: the clones are one block right after the last original, in
\* the order in which their originals are stored in the flat list.
C6_FlatListOrder ==
    last.op = "duplicateLine" =>
        /\ ClonesAreBlock
        /\ \A o1, o2 \in SubtreeIds(prev, last.id) :
               findIndex(prev, o1) < findIndex(prev, o2) => ClonePos(o1) < ClonePos(o2)

\* C6: the clones are one block right after the last original, in depth-first
\* order of the duplicated subtree: a clone after the clone of its parent,
\* the clones of the children of one Line in the flat-list order of those
\* children, and the clones of a Line's descendants right after its clone.
C6_DepthFirstOrder ==
    last.op = "duplicateLine" =>
        LET S == SubtreeIds(prev, last.id)
        IN  /\ ClonesAreBlock
            /\ \A o \in S \ {last.id} : ClonePos(find(prev, o).parentId) < ClonePos(o)
            /\ \A o1, o2 \in S :
                   (/\ find(prev, o1).parentId = find(prev, o2).parentId
                    /\ findIndex(prev, o1) < findIndex(prev, o2))
                       => ClonePos(o1) < ClonePos(o2)
            /\ \A o \in S : \A x \in DescendantsOf(prev, o) : \A y \in S :
                   (ClonePos(o) < ClonePos(y) /\ ClonePos(y) < ClonePos(x))
                       => y \in DescendantsOf(prev, o)

\* C6 witness: the duplicated subtree is stored with a Line's child after a
\* later sibling of that Line, and the clones are not in the originals' order.
C6_Witness ==
    /\ last.op = "duplicateLine"
    /\ \E o1, o2 \in SubtreeIds(prev, last.id) :
           /\ findIndex(prev, o1) < findIndex(prev, o2)
           /\ ClonePos(o2) < ClonePos(o1)
           /\ find(prev, o2).parentId \notin {NoId, last.id}

\* C7: a drop of the dragged Line d on Section s sets d's sectionId to s and
\* clears its parentId, sets the sectionId of d's descendants to s, and keeps
\* everything else, the order included; with no Line dragged, or a dragged id
\* that is not in the list, the list is kept.
C7_Reparent ==
    /\ last.op = "drop" =>
           IF last.id = NoId \/ last.id \notin IdsOf(prev) THEN lines = prev
           ELSE /\ Len(lines) = Len(prev)
                /\ \A i \in DOMAIN prev :
                       lines[i] =
                           IF prev[i].id = last.id
                           THEN [prev[i] EXCEPT !.sectionId = last.sec, !.parentId = NoId]
                           ELSE IF prev[i].id \in DescendantsOf(prev, last.id)
                                THEN [prev[i] EXCEPT !.sectionId = last.sec]
                                ELSE prev[i]
    /\ \A absent \in AbsentIds, s \in SectionIds :
           handleDropOnSection(lines, absent, s) = lines

\* C7 witness: a Line that had a parent and a child was dropped on another
\* section than its own.
C7_Witness ==
    /\ last.op = "drop"
    /\ last.id \in IdsOf(prev)
    /\ find(prev, last.id).parentId # NoId
    /\ find(prev, last.id).sectionId # last.sec
    /\ DescendantsOf(prev, last.id) # {}
    /\ \E i \in DOMAIN prev : prev[i].id \notin SubtreeIds(prev, last.id)

\* The sum of f[i] over the set of indices.
RECURSIVE SumOver(_, _)
SumOver(indices, f) ==
    IF indices = {} THEN Num(0)
    ELSE LET i == CHOOSE i \in indices : TRUE
         IN  NumPlus(f[i], SumOver(indices \ {i}, f))

\* quantity * frequency of the Line id and of every Line above it, multiplied.
RECURSIVE ChainFactor(_, _, _)
ChainFactor(allLines, id, fuel) ==
    IF id \notin IdsOf(allLines) \/ fuel = 0 THEN Num(1)
    ELSE LET l == find(allLines, id)
         IN  NumTimes(NumTimes(l.quantity, l.frequency),
                      ChainFactor(allLines, l.parentId, fuel - 1))

\* What a Line without children costs, through the Lines above it.
LeafCost(allLines, i) ==
    NumTimes(allLines[i].unit_cost, ChainFactor(allLines, allLines[i].id, Len(allLines)))

\* C8: the grand total is the sum of total over the recalculated Lines that
\* have no parent, and it is the sum of what each Line without children
\* costs through its chain of ancestors, each counted once.
C8_GrandTotal ==
    /\ grandTotal =
           SumOver({i \in DOMAIN computedLines : computedLines[i].parentId = NoId},
                   [i \in DOMAIN computedLines |-> computedLines[i].total])
    /\ grandTotal =
           SumOver({i \in DOMAIN computedLines :
                       ~HasChild(computedLines, computedLines[i].id)},
                   [i \in DOMAIN computedLines |-> LeafCost(computedLines, i)])

\* C8 witness: after an edit, a Line two levels down costs something and the
\* grand total is not zero.
C8_Witness ==
    /\ last.op = "updateLine"
    /\ grandTotal.n # 0
    /\ \E i \in DOMAIN computedLines :
           /\ ~HasChild(computedLines, computedLines[i].id)
           /\ LeafCost(computedLines, i).n # 0
           /\ renderDepth(computedLines[i].id, Len(computedLines) + 1) = MaxDepth

(***************************************************************************)
(* Properties of the consumers of the recalculated list on lists with      *)
(* broken parent links.                                                    *)
(***************************************************************************)
\* A Line that has no parent in the list: no parentId, or one that names no
\* Line of the list.
HasNoParentIn(allLines, l) == l.parentId = NoId \/ l.parentId \notin IdsOf(allLines)

\* C11: a Line whose parentId names no existing Line is counted as a
\* top-level Line in the grand total and in its section's subtotal, and is
\* shown as a top-level row of its section.
C11_OrphanCountedAsTopLevel ==
    /\ grandTotal =
           SumOver({i \in DOMAIN computedLines : HasNoParentIn(computedLines, computedLines[i])},
                   [i \in DOMAIN computedLines |-> computedLines[i].total])
    /\ \A sId \in SectionIds :
           sectionTotalOf(computedLines, sId) =
               SumOver({i \in DOMAIN computedLines :
                           /\ computedLines[i].sectionId = sId
                           /\ HasNoParentIn(computedLines, computedLines[i])},
                       [i \in DOMAIN computedLines |-> computedLines[i].total])
    /\ \A i \in DOMAIN computedLines :
           HasNoParentIn(computedLines, computedLines[i]) =>
               renderDepth(computedLines[i].id, Len(computedLines) + 1) = 1

\* C12: on a list with a Line that is its own parent, or with a cycle of
\* parent links, cascade delete, move and duplicate of any Line of the list
\* end and store a list.
C12_StructuralOpsTerminate ==
    last.op \notin {"deleteLine loops", "duplicateLine overflows",
                    "handleDropOnSection loops"}

(***************************************************************************)
(* Properties of the sanitized fields.                                     *)
(***************************************************************************)
\* A finite number greater than or equal to 0.
IsFiniteNonNegative(v) == v.k = "num" /\ v.n >= 0

\* C13: after recalcHierarchy, every Line's quantity and frequency are finite
\* numbers greater than or equal to 0, for every stored input: negative
\* numbers, NaN, infinities and non-numeric values included.
C13_QuantityFrequencyNonNegative ==
    last.op = "recalc" =>
        \A i \in DOMAIN lines :
            /\ IsFiniteNonNegative(lines[i].quantity)
            /\ IsFiniteNonNegative(lines[i].frequency)

(***************************************************************************)
(* Properties of numeric input.                                            *)
(***************************************************************************)
\* The text the last paste holds for the Line at position i: the first cell
\* of its row.
PastedText(i) == pastedRows(last.rows)[i - findIndex(prev, last.id) + 1][1]

\* C14: a text that parses to not-a-number leaves the target Line's field at
\* its previous value, in the direct cell edit and in a bulk paste into
\* quantity, frequency or unit_cost.
C14_InvalidInputKeepsValue ==
    /\ (last.op = "numericInput" /\ parseNumericInput(last.txt).k # "num") =>
           lines = prev
    /\ (last.op = "paste" /\ last.field \in NumericFields) =>
           \A i \in PastedAt :
               parseNumericInput(PastedText(i)).k # "num" =>
                   lines[i][last.field] = prev[i][last.field]

(***************************************************************************)
(* Properties of the section caps.                                         *)
(***************************************************************************)
\* The sum of the totals of the parentless Lines of section sId.
SubtotalOf(sId) ==
    SumOver({j \in DOMAIN computedLines :
                computedLines[j].sectionId = sId /\ computedLines[j].parentId = NoId},
            [j \in DOMAIN computedLines |-> computedLines[j].total])

\* The sum of the totals of all parentless Lines.
TotalOfDocument ==
    SumOver({j \in DOMAIN computedLines : computedLines[j].parentId = NoId},
            [j \in DOMAIN computedLines |-> computedLines[j].total])

\* The limit of a section with a cap: its cap value, or that percentage of
\* the grand total.
LimitOf(s) ==
    IF s.capType = "amount" THEN s.capValue
    ELSE Frac(TotalOfDocument.n * s.capValue.n, TotalOfDocument.d * s.capValue.d * 100)

\* C15: a section with a fixed-amount cap has limit = its cap value, one with
\* a percent cap has limit = grand total * cap value / 100; it is flagged
\* over-cap exactly when its subtotal is strictly greater than the limit,
\* and a section with no cap type is never flagged.
C15_CapEvaluation ==
    \A i \in DOMAIN sections :
        LET s == sections[i]
        IN  IF s.capType = "" THEN ~isOverCap(s)
            ELSE /\ s.capValue.k = "num"
                 /\ capLimit(s) = LimitOf(s)
                 /\ isOverCap(s) <=> NumLess(LimitOf(s), SubtotalOf(s.id))

\* C15 witness: a section capped at 50 percent of a non-zero grand total is
\* over its cap, or one capped at 100 percent has its subtotal at the limit.
C15_Witness ==
    \E i \in DOMAIN sections :
        /\ sections[i].capType = "percent"
        /\ sections[i].capValue = Num(50)
        /\ TotalOfDocument.n > 0
        /\ isOverCap(sections[i])

(***************************************************************************)
(* Properties of the filter.                                               *)
(***************************************************************************)
\* The letter c without its case.
Caseless(c) ==
    IF \E j \in DOMAIN LowerCase : LowerCase[j] = c
    THEN UpperCase[CHOOSE j \in DOMAIN LowerCase : LowerCase[j] = c]
    ELSE c

\* t occurs in text, case-insensitively.
OccursIn(t, text) ==
    \E k \in 0 .. Len(text) - Len(t) :
        \A j \in 1 .. Len(t) : Caseless(text[k + j]) = Caseless(t[j])

\* The filter text occurs in the Line's description or category.
TextMatches(l) == OccursIn(filterText, l.description) \/ OccursIn(filterText, l.category)

\* C16: with a non-empty filter text a Line is visible if and only if the
\* text occurs case-insensitively in its own description or category, or in
\* those of one of its descendants, or of one of its ancestors; with an
\* empty filter every Line is visible.  The rows drawn are the visible Lines.
C16_Visibility ==
    \A i \in DOMAIN computedLines :
        LET l == computedLines[i]
        IN  /\ isLineVisible(l) <=>
                   \/ filterText = <<>>
                   \/ TextMatches(l)
                   \/ \E x \in DescendantsOf(computedLines, l.id) :
                          TextMatches(find(computedLines, x))
                   \/ \E a \in IdsOf(computedLines) :
                          /\ l.id \in DescendantsOf(computedLines, a)
                          /\ TextMatches(find(computedLines, a))
            /\ Shown(l.id) <=> isLineVisible(l)

\* C16 witness: only a grandchild matches the filter, in another case than
\* typed: it, its parent and its grandparent are visible, a sibling is not.
C16_Witness ==
    /\ filterText # <<>>
    /\ toLowerCase(filterText) # filterText
    /\ Cardinality({i \in DOMAIN computedLines : TextMatches(computedLines[i])}) = 1
    /\ Cardinality({i \in DOMAIN computedLines : isLineVisible(computedLines[i])}) = 3
    /\ \E g, p, q, h \in DOMAIN computedLines :
           /\ TextMatches(computedLines[g])
           /\ computedLines[g].parentId = computedLines[p].id
           /\ computedLines[p].parentId = computedLines[q].id
           /\ computedLines[h].parentId = computedLines[q].id
           /\ isLineVisible(computedLines[g])
           /\ isLineVisible(computedLines[p])
           /\ isLineVisible(computedLines[q])
           /\ ~isLineVisible(computedLines[h])

(***************************************************************************)
(* Properties of the list that is handed out.                              *)
(***************************************************************************)
\* C17: after any sequence of operations, those that store their result
\* without recalculating it included, the list from which totals, rows,
\* snapshots and the export are derived, and the list handed to save, is the
\* recalculated list of the stored Lines.
C17_HandedListIsRecalculated ==
    /\ computedLines = recalcHierarchy(lines)
    /\ last.op \in Targets => saved.lines = recalcHierarchy(lines)

\* C17 witness: a save after a sub-line was added to a Line, which is stored
\* with a unit_cost that the recalculation changes.
C17_Witness ==
    /\ last.op = "save"
    /\ saved.lines # lines
    /\ \E i, j \in DOMAIN lines :
           /\ lines[j].parentId = lines[i].id
           /\ \A data \in InitialData : lines[j].id \notin IdsOf(data.lines)
           /\ lines[i].unit_cost # saved.lines[i].unit_cost

(***************************************************************************)
(* Properties of the shape of the tree.                                    *)
(***************************************************************************)
\* The level of the Line id: 1 for a Line without parent, one more than its
\* parent's otherwise.
RECURSIVE LevelOf(_, _, _)
LevelOf(allLines, id, fuel) ==
    IF fuel = 0 \/ id \notin IdsOf(allLines) THEN 0
    ELSE IF find(allLines, id).parentId = NoId THEN 1
    ELSE 1 + LevelOf(allLines, find(allLines, id).parentId, fuel - 1)

\* C18: starting from a list in which no Line is deeper than 3 levels, after
\* any sequence of add-sub-line, add-sibling, duplicate, move and delete
\* operations no Line is deeper than 3 levels.
C18_DepthBounded ==
    \A i \in DOMAIN lines : LevelOf(lines, lines[i].id, Len(lines) + 1) <= 3

\* C18 witness: a Line was added or cloned at the third level.
C18_Witness ==
    /\ last.op \in {"addNewLine", "duplicateLine"}
    /\ \E i \in DOMAIN last.made :
           LevelOf(lines, last.made[i], Len(lines) + 1) = 3

\* C19: starting from a list where every child has the sectionId of its
\* parent, after any sequence of add, duplicate, move, delete, paste and
\* field-edit operations every Line with a parentId has the sectionId of the
\* Line its parentId names.
C19_ParentSharesSection ==
    \A i \in DOMAIN lines :
        lines[i].parentId # NoId =>
            /\ lines[i].parentId \in IdsOf(lines)
            /\ find(lines, lines[i].parentId).sectionId = lines[i].sectionId

\* C19 witness: a Line with a sub-line that has a sub-line was dropped on
\* another section.
C19_Witness ==
    /\ last.op = "drop"
    /\ \E i, j, k \in DOMAIN lines :
           /\ lines[i].id = last.id
           /\ prev[i].sectionId # last.sec
           /\ lines[j].parentId = lines[i].id
           /\ lines[k].parentId = lines[j].id
           /\ lines[k].sectionId = last.sec

(***************************************************************************)
(* Properties of the bulk paste.                                           *)
(***************************************************************************)
\* The rows of a clipboard text that are not empty.
NonEmptyRows(text) == SelectSeq(text, LAMBDA r : Len(r) > 1 \/ r[1] # <<>>)

\* What the paste of rows into last.field, starting at the Line last.id of
\* prev, leaves in the stored list: row i in the Line i - 1 places below the
\* starting Line, as a text or as the number it parses to; nothing else but
\* the total of a Line whose numeric field was written.
PasteWrote(rows) ==
    LET start == findIndex(prev, last.id)
        f == last.field
    IN  /\ Len(lines) = Len(prev)
        /\ \A p \in DOMAIN prev :
               LET i == p - start + 1
               IN  IF i \in DOMAIN rows
                   THEN /\ f \notin NumericFields => lines[p][f] = rows[i][1]
                        /\ (f \in NumericFields /\ parseNumericInput(rows[i][1]).k = "num") =>
                               lines[p][f] = parseNumericInput(rows[i][1])
                        /\ \A g \in DOMAIN prev[p] \ {f, "total"} : lines[p][g] = prev[p][g]
                        /\ f \notin NumericFields => lines[p].total = prev[p].total
                   ELSE lines[p] = prev[p]

\* An unknown starting id leaves the list unchanged.
PasteAtUnknownId ==
    \A a \in AbsentIds, f \in PasteFields, text \in Clipboards :
        handlePaste(lines, a, f, text) = lines

\* C20 as stated: the i-th text row of the clipboard goes to the Line at
\* index s + i, every row of the text counted, an empty one included.
C20_PasteEveryRow ==
    /\ last.op = "paste" => PasteWrote(last.rows)
    /\ PasteAtUnknownId

\* C20: a bulk paste into field f starting at the Line with index s writes
\* the first tab-separated column of the i-th non-empty text row into field
\* f of the Line at index s + i while s + i is inside the list, adds no
\* Line, and leaves every other Line and every field other than f and the
\* derived total unchanged; an unknown starting id leaves the list unchanged.
C20_PasteNonEmptyRows ==
    /\ last.op = "paste" => PasteWrote(NonEmptyRows(last.rows))
    /\ PasteAtUnknownId

\* C20 witness: a paste below the first Line of a text with an empty row and
\* more rows than Lines are left; it changed the list.
C20_Witness ==
    /\ last.op = "paste"
    /\ lines # prev
    /\ NonEmptyRows(last.rows) # last.rows
    /\ findIndex(prev, last.id) > 1
    /\ findIndex(prev, last.id) + Len(NonEmptyRows(last.rows)) - 1 > Len(prev)

(***************************************************************************)
(* Properties of recalcHierarchy as a function of the stored list.         *)
(***************************************************************************)
DerivedFields == {"quantity", "frequency", "unit_cost", "total"}

\* after has the Lines of before, in the same order, each with every field
\* but the four numeric ones as it is in before.
SameButDerived(before, after) ==
    /\ Len(after) = Len(before)
    /\ \A i \in DOMAIN before :
           /\ DOMAIN after[i] = DOMAIN before[i]
           /\ \A g \in DOMAIN before[i] \ DerivedFields : after[i][g] = before[i][g]

\* C21: recalcHierarchy returns a list of the same length holding the same
\* ids in the same order, in which every field other than quantity,
\* frequency, unit_cost and total equals the input's.
C21_RecalcKeepsOrderAndFields ==
    /\ SameButDerived(lines, computedLines)
    /\ SameButDerived(lines, recalcHierarchy(lines))

\* C21 witness: the recalculation changed a list of three levels in which a
\* parent has notes, shows them and is selected.
C21_Witness ==
    /\ computedLines # lines
    /\ \E i, j, k \in DOMAIN lines :
           /\ lines[j].parentId = lines[i].id
           /\ lines[k].parentId = lines[j].id
           /\ lines[i].notes # <<>>
           /\ lines[i].showNotes
           /\ lines[i].selected
           /\ computedLines[i].unit_cost # lines[i].unit_cost

(***************************************************************************)
(* The parser specification: parseNumericInput applied once to each of a   *)
(* set of written expressions, each paired with the value it denotes, or   *)
(* with NaN when it denotes none.                                          *)
(***************************************************************************)
Written(text, value) == [text |-> text, value |-> value]

\* Short numerals: integers, a percentage, a decimal comma.
ShortNumerals ==
    { Written(<<"0">>, Num(0)), Written(<<"2">>, Num(2)), Written(<<"3">>, Num(3)),
      Written(<<"4">>, Num(4)), Written(<<"1", "0", "%">>, Frac(1, 10)),
      Written(<<"1", ",", "5">>, Frac(3, 2)) }

Integers234 == {e \in ShortNumerals : e.value \in {Num(2), Num(3), Num(4)}}

\* Numerals with separators: 1,234.56 and 1.234,56 and 1,234,567 and 1.5 and
\* 0.0000001 and 50%.
LongNumerals ==
    { Written(<<"1", ",", "2", "3", "4", ".", "5", "6">>, Frac(123456, 100)),
      Written(<<"1", ".", "2", "3", "4", ",", "5", "6">>, Frac(123456, 100)),
      Written(<<"1", ",", "2", "3", "4", ",", "5", "6", "7">>, Num(1234567)),
      Written(<<"1", ".", "5">>, Frac(3, 2)),
      Written(<<"0", ".", "0", "0", "0", "0", "0", "0", "1">>, Frac(1, 10000000)),
      Written(<<"5", "0", "%">>, Frac(1, 2)) }

BinaryOps == {"+", "-", "*", "/"}

\* x op y; NaN when it is not a finite number.
Apply(op, x, y) ==
    IF x.k # "num" \/ y.k # "num" THEN NaNV
    ELSE CASE op = "+" -> NumPlus(x, y)
           [] op = "-" -> NumMinus(x, y)
           [] op = "*" -> NumTimes(x, y)
           [] op = "/" -> IF y.n = 0 THEN NaNV ELSE Frac(x.n * y.d, x.d * y.n)

\* a op b
Binary(a, op, b) == Written(a.text \o <<op>> \o b.text, Apply(op, a.value, b.value))

\* a op1 b op2 c, with * and / binding tighter than + and -, left to right.
Ternary(a, op1, b, op2, c) ==
    Written(a.text \o <<op1>> \o b.text \o <<op2>> \o c.text,
            IF op1 \in {"+", "-"} /\ op2 \in {"*", "/"}
            THEN Apply(op1, a.value, Apply(op2, b.value, c.value))
            ELSE Apply(op2, Apply(op1, a.value, b.value), c.value))

\* (e), -e, +e, =e and e with blanks around it.
Parenthesized(e) == Written(<<"(">> \o e.text \o <<")">>, e.value)
Negated(e) == Written(<<"-">> \o e.text, Apply("-", Num(0), e.value))
Plussed(e) == Written(<<"+">> \o e.text, e.value)
Equals(e) == Written(<<"=">> \o e.text, e.value)
Spaced(e) == Written(<<" ">> \o e.text \o <<" ">>, e.value)

Sums == {Binary(a, op, b) : a \in Integers234, op \in {"+", "-"}, b \in Integers234}

WellFormedExpressions ==
    LET Flat == ShortNumerals \cup LongNumerals
                  \cup {Binary(a, op, b) : a \in ShortNumerals, op \in BinaryOps, b \in ShortNumerals}
                  \cup {Ternary(a, op1, b, op2, c) :
                            a \in Integers234, op1 \in BinaryOps, b \in Integers234,
                            op2 \in BinaryOps, c \in Integers234}
        Grouped == {Binary(Parenthesized(e), op, c) : e \in Sums, op \in BinaryOps, c \in Integers234}
                     \cup {Binary(c, op, Parenthesized(e)) :
                               c \in Integers234, op \in BinaryOps, e \in Sums}
                     \cup {Negated(Parenthesized(e)) : e \in Sums}
        Signed == {Negated(e) : e \in ShortNumerals \cup LongNumerals}
                    \cup {Plussed(e) : e \in ShortNumerals}
                    \cup {Binary(a, op, Negated(b)) :
                              a \in Integers234, op \in BinaryOps, b \in Integers234}
    IN  Flat \cup Grouped \cup Signed
             \cup {Equals(e) : e \in Flat} \cup {Spaced(e) : e \in ShortNumerals}

\* Texts that denote no number: empty, characters outside the grammar,
\* incomplete or unbalanced expressions, a number with two decimal points.
MalformedExpressions ==
    { Written(t, NaNV) :
        t \in { <<>>, <<" ">>, <<"=">>, <<"a", "b", "c">>, <<"2", "a">>, <<"2", "+">>, <<"*", "2">>,
                <<"(", "2">>, <<"2", ")">>, <<"(", ")">>, <<"2", "(", "3", ")">>,
                <<"2", "%", "%">>, <<"%">>, <<".">>, <<"1", ".", "5", ".", "2">>, <<"2", "+", "*", "3">> } }

Expressions == WellFormedExpressions \cup MalformedExpressions

InitParse ==
    /\ \E e \in Expressions : last = Op("input", NoId, "", Undef, e.text, NoId, <<>>, <<>>)
    /\ lines = <<>>
    /\ computedLines = <<>>
    /\ sections = <<>>
    /\ activeRowId = NoId
    /\ draggedLineId = NoId
    /\ suggestions = <<>>
    /\ pending = <<>>
    /\ nextId = 1
    /\ filterText = <<>>
    /\ saved = NothingSaved
    /\ steps = 0
    /\ prev = <<>>

\* parseNumericInput(raw): the value it returns is recorded with the text.
ParseInput ==
    /\ last.op = "input"
    /\ last' = Op("parseNumericInput", NoId, "", parseNumericInput(last.txt), last.txt,
                  NoId, <<>>, <<>>)
    /\ steps' = steps + 1
    /\ UNCHANGED <<lines, computedLines, sections, activeRowId, draggedLineId, suggestions,
                   pending, nextId, filterText, saved, prev>>

NextParse == ParseInput

SpecParse == InitParse /\ [][NextParse]_vars

\* C22: parseNumericInput returns the arithmetic value of a well-formed
\* expression (leading '=', precedence, unary signs, parentheses, '%',
\* thousands separators and decimal comma), and the not-a-number sentinel
\* for every input that is empty, has a character outside the grammar, is
\* syntactically invalid or evaluates to a non-finite value.
C22_ParsedValue ==
    last.op = "parseNumericInput" =>
        \A e \in Expressions : e.text = last.txt => last.val = e.value

ImportedLines == {i \in DOMAIN lines : lines[i].id \in SeqToSet(last.made)}
ImportedSections == {i \in DOMAIN sections : sections[i].id \in SeqToSet(last.made)}

\* The name of the section of an imported item.
SectionNameOf(item) ==
    LET category == IF item.category = <<>> THEN <<"G", "e", "n", "e", "r", "a", "l">> ELSE item.category
    IN  [i \in DOMAIN category |-> Caseless(category[i])]

\* Every item became a top-level Line of a section named after its category,
\* after the Lines that were there, and the stored list is a recalculated one.
C24_ImportedLines ==
    last.op = "handleSmartImport" =>
        /\ Len(lines) = Len(prev) + Len(last.rows)
        /\ SubSeq(lines, 1, Len(prev)) = recalcHierarchy(prev)
        /\ \A k \in DOMAIN last.rows :
               LET l == lines[Len(prev) + k]
               IN  /\ l.parentId = NoId
                   /\ l.id \in SeqToSet(last.made)
                   /\ \E i \in DOMAIN sections :
                          /\ sections[i].id = l.sectionId
                          /\ sections[i].name = SectionNameOf(last.rows[k])
        /\ lines = recalcHierarchy(lines)

\* C24: a bulk import makes every candidate a new top-level Line of the
\* Section named after its category, creates a Section only when the
\* document has none of that name (so no section the import added shares
\* its name with another section), and stores the recalculated merged list.
C24_ImportSections ==
    /\ C24_ImportedLines
    /\ last.op = "handleSmartImport" =>
           \A i \in ImportedSections : \A j \in DOMAIN sections :
               sections[j].name = sections[i].name => j = i

\* C25: in the exported workbook every section's SUBTOTAL evaluates to the
\* sum of total over the section's top-level Lines, and TOTAL GENERAL to the
\* grand total of the editor, also when Lines have sub-lines.
C25_ExportAgrees ==
    last.op = "export" =>
        /\ \A i \in DOMAIN sections : saved.workbook.subtotals[i] = sectionTotal(sections[i])
        /\ saved.workbook.total = grandTotal

\* The Line at index i reaches a Line without parent in at most fuel steps
\* along the parent links.
RECURSIVE ReachesTop(_, _, _)
ReachesTop(allLines, i, fuel) ==
    \/ allLines[i].parentId = NoId
    \/ /\ fuel > 0
       /\ \E j \in DOMAIN allLines :
              /\ allLines[j].id = allLines[i].parentId
              /\ ReachesTop(allLines, j, fuel - 1)

\* The parent links of the list are a forest over pairwise distinct ids.
IsForest(allLines) ==
    /\ \A i, j \in DOMAIN allLines : allLines[i].id = allLines[j].id => i = j
    /\ \A i \in DOMAIN allLines :
           allLines[i].parentId # NoId =>
               \E j \in DOMAIN allLines : allLines[j].id = allLines[i].parentId
    /\ \A i \in DOMAIN allLines : ReachesTop(allLines, i, Len(allLines))

\* C26: after any sequence of add, edit, paste, delete, duplicate, move,
\* import and snapshot-restore operations on a well-formed list, every
\* non-empty parentId names an existing Line, no Line is its own ancestor and
\* all ids are pairwise distinct, in the stored list and in the derived one.
C26_ParentLinksStayForest == IsForest(lines) /\ IsForest(computedLines)

\* A second operation that deleted, duplicated, moved, imported or restored
\* left a list with a sub-line of a sub-line.
C26_Witness ==
    /\ steps = 2
    /\ last.op \in {"deleteLine", "duplicateLine", "drop", "handleSmartImport", "restoreSnapshot"}
    /\ lines # prev
    /\ \E i, j \in DOMAIN lines :
           /\ lines[i].parentId = lines[j].id
           /\ lines[j].parentId # NoId

\* The Line of id p has a sub-line in the list.
HasChildIn(allLines, p) == \E j \in DOMAIN allLines : allLines[j].parentId = p

\* The ids of the Lines that had sub-lines before the last operation, are
\* still in the list and have none now.
LostLastChild ==
    {p \in IdsOf(prev) \cap IdsOf(lines) : HasChildIn(prev, p) /\ ~HasChildIn(lines, p)}

\* C27: a Line that lost its last child by a delete or a move has, in the
\* recalculated list, the unit_cost that was derived for it just before the
\* removal (the sum of its children's totals).
C27_LeafKeepsDerivedUnitCost ==
    last.op \in {"deleteLine", "drop"} =>
        \A p \in LostLastChild :
            find(computedLines, p).unit_cost = find(recalcHierarchy(prev), p).unit_cost

\* C28: after any sequence of operations on a document whose Lines all name
\* an existing Section, the grand total is the sum of the section subtotals:
\* every top-level Line is in a section that exists, and no two sections
\* have the same id.
C28_GrandTotalIsSumOfSubtotals ==
    /\ grandTotal = SumSeq([i \in DOMAIN sections |-> sectionTotal(sections[i])])
    /\ \A i \in DOMAIN computedLines :
           computedLines[i].parentId = NoId => computedLines[i].sectionId \in SectionIds
    /\ \A i, j \in DOMAIN sections : sections[i].id = sections[j].id => i = j

\* Two operations, the second a new section, a move, an import or a restore,
\* left three or more sections or two sections with a subtotal other than 0.
C28_Witness ==
    /\ steps = 2
    /\ last.op \in {"addSection", "drop", "handleSmartImport", "restoreSnapshot"}
    /\ grandTotal # Num(0)
    /\ \/ Len(sections) >= 3
       \/ \E i, j \in DOMAIN sections :
              /\ i # j
              /\ sectionTotal(sections[i]) # Num(0)
              /\ sectionTotal(sections[j]) # Num(0)

\* The ids of the rows in the order they are walked, section after section.
VisualIds ==
    UNION {SeqToSet(getOrderedLinesForSection(sections[i].id)) : i \in DOMAIN sections}

\* C29: whatever the filter text, the parent of a visible Line is visible,
\* and the walk from the visible top-level Lines that stops at the first
\* invisible Line reaches every visible Line: each is drawn and each is in
\* the ordered list of a section.
C29_VisibleClosedUnderAncestors ==
    \A i \in DOMAIN computedLines :
        LET l == computedLines[i]
        IN  isLineVisible(l) =>
                /\ l.parentId # NoId => isLineVisible(find(computedLines, l.parentId))
                /\ renderDepth(l.id, Len(computedLines) + 1) > 0
                /\ l.id \in VisualIds

\* A filter is set that a sub-line of a sub-line matches and its parent and
\* grandparent do not; the three are walked and another Line is hidden.
C29_Witness ==
    /\ filterText # <<>>
    /\ \E g, p, q, h \in DOMAIN computedLines :
           LET term == toLowerCase(filterText)
           IN  /\ computedLines[g].parentId = computedLines[p].id
               /\ computedLines[p].parentId = computedLines[q].id
               /\ matchesFilter(computedLines[g], term)
               /\ ~matchesFilter(computedLines[p], term)
               /\ ~matchesFilter(computedLines[q], term)
               /\ {computedLines[g].id, computedLines[p].id, computedLines[q].id}
                      \subseteq VisualIds
               /\ ~isLineVisible(computedLines[h])
               /\ computedLines[h].id \notin VisualIds

\* The last operation issued a lookup, empty query included.
IssuedLookup ==
    \/ last.op = "focus"
    \/ /\ last.op = "updateLine"
       /\ \/ last.field = "description"
          \/ last.field = "category" /\ find(prev, last.id).description = <<>>

\* The query of the lookup the last operation issued.
LatestQuery ==
    IF last.op = "focus"
    THEN LET l == find(computedLines, last.id)
         IN  IF l.description # <<>> THEN l.description ELSE l.category
    ELSE last.txt

\* C30: once every lookup in flight has been answered, the suggestions shown
\* are those of the most recently issued query, or none when that lookup
\* failed; after a lookup with an empty query the list is empty.
C30_NoStaleSuggestions ==
    (IssuedLookup /\ pending = <<>>) => suggestions \in {<<>>, LatestQuery}

====
